---- MODULE Spec2Model ----
(***************************************************************************)
(* Verification model of radiant-portfolio-pulse.                          *)
(*                                                                         *)
(*   - the Ledger Store / buy and sell operations                          *)
(*       src/src/services/portfolioService.ts  (updatePortfolioHolding,    *)
(*       removePortfolioHolding) called through FinanceContext.addStock /  *)
(*       removeStock and guarded by StockActionDialog.handleAction;        *)
(*   - the Profit/Loss Reconstructor (calculateProfitLoss);                *)
(*   - the Quote Gateway  src/src/services/finnhubService.ts  (cache,      *)
(*       request queue, getStockQuote and the other queued callers).       *)
(*                                                                         *)
(* JavaScript runs one handler at a time up to its next await, so every    *)
(* action below is one synchronous run of the code between two awaits.     *)
(* Numbers that the code divides (average_cost, avgCostPerShare) are kept  *)
(* as exact fractions [n, d]; d = 0 stands for a non-finite JS number.     *)
(***************************************************************************)
EXTENDS Integers, Sequences, FiniteSets, TLC

\* ------------------------------------------------------------------ bounds
NumSlots == 2
\* concurrent addStock / removeStock calls that can be in flight
MaxQty == 2
\* quantities entered in the dialog are 1..MaxQty
MaxPrice == 2
\* prices entered in the dialog are 1..MaxPrice
MaxOps == 3
\* addStock / removeStock calls started in one run
MaxSerialOps == 2
\* calls started in a run in which they follow one another
MaxFaults == 1
\* backend calls that fail in one run

Symbols == {"AAPL"}
\* a symbol for which get_stock_details returns nothing
UnlistedSymbol == "ZZZZ"
Slots == 1..NumSlots
Qtys == 1..MaxQty
Prices == 1..MaxPrice

\* ------------------------------------------------------- exact fractions
RECURSIVE GCD(_, _)
GCD(a, b) == IF b = 0 THEN a ELSE GCD(b, a % b)

Abs(x) == IF x < 0 THEN -x ELSE x

\* n / d as a reduced fraction with positive denominator; d = 0 is the
\* non-finite result of a JS division by zero
Frac(n, d) ==
  IF d = 0 THEN [n |-> 0, d |-> 0]
  ELSE LET g == GCD(Abs(n), Abs(d))
           s == IF d < 0 THEN -1 ELSE 1
       IN [n |-> (s * n) \div g, d |-> (s * d) \div g]

FracInt(k) == [n |-> k, d |-> 1]

\* ------------------------------------------------------------------ state
VARIABLES
  dbStocks,        \* table stocks: sequence of symbols, row id = index
  dbHoldings,      \* table portfolio_holdings: set of rows
  nextHoldingId,   \* id given to the next inserted holding row
  dbTransactions,  \* table transactions in transaction_date order
  uiStocks,        \* FinanceContext state `stocks`: what the dialogs display
  calls,           \* one record per call slot (local variables of the call)
  opsStarted,      \* number of calls started
  faults,          \* number of failed backend calls
  buyLog,          \* history: per symbol, total qty and cost of the buys that returned true
  sellSeen         \* history: symbols for which a removeStock call was started

portfolioVars == <<dbStocks, dbHoldings, nextHoldingId, dbTransactions,
                   uiStocks, calls, opsStarted, faults, buyLog, sellSeen>>

VARIABLES
  plTransactions,  \* the list getUserTransactions returned to calculateProfitLoss
  plResult         \* what calculateProfitLoss returned for it

plVars == <<plTransactions, plResult>>

VARIABLES
  now,               \* Date.now(), in ms
  ticks,             \* number of clock advances so far
  devMock,           \* import.meta.env.DEV with no API key configured
  cache,             \* cache.quotes / profiles / historical / search
  requests,          \* every request handed to enqueueRequest, in that order
  requestQueue,      \* requestQueue: ids of the queued requests
  isProcessingQueue, \* isProcessingQueue
  loops,             \* the processQueue invocations that passed the guard
  gatewayCalls,      \* history: the calls made to the gateway
  populated          \* history: cache.quotes writes, as <<key, time>>

gatewayVars == <<now, ticks, devMock, cache, requests, requestQueue,
                 isProcessingQueue, loops, gatewayCalls, populated>>

VARIABLES
  batches            \* the getBatchQuotes calls: local variables and history

batchVars == <<batches>>

VARIABLES
  quoteCache,        \* cache.quotes with the shape of the stored quote
  quoteLog           \* history: the getStockQuote calls and what they returned

quoteVars == <<quoteCache, quoteLog>>

VARIABLES
  heldRows,          \* the user's portfolio_holdings rows joined with stocks
  holdingsResult,    \* the last getPortfolioHoldings call and what it returned
  summaryResult,     \* the last getPortfolioSummary call and what it returned
  published          \* FinanceProvider: portfolioSummary and the list it came from

holdingsVars == <<heldRows, holdingsResult, summaryResult, published>>

VARIABLES
  signedIn,          \* supabase.auth has a session
  lastRead           \* history: the last call of a read function and its result

sessionVars == <<signedIn, lastRead>>

VARIABLES
  histDay,           \* today, as a day number
  histHoldings,      \* portfolio_holdings of the user: per stock, the row or quantity 0
  histTx,            \* transactions of the user in transaction_date order
  analytics          \* the call of an analytics function made and what it returned

historyVars == <<histDay, histHoldings, histTx, analytics>>

VARIABLES
  searchCache,       \* cache.search: per query, the stored results
  searchLog,         \* history: the searchStocks calls and what they returned
  suggestions        \* the suggestions state of the stock search component

searchVars == <<searchCache, searchLog, suggestions>>

VARIABLES
  replay             \* calculateProfitLoss inside one stock's sortedTxs.forEach

replayVars == <<replay>>

moreVars == <<batchVars, quoteVars, holdingsVars, sessionVars, historyVars, searchVars, replayVars>>

vars == <<portfolioVars, plVars, gatewayVars, moreVars>>

nonPortfolioVars == <<plVars, gatewayVars, moreVars>>
nonPLVars == <<portfolioVars, gatewayVars, moreVars>>
nonGatewayVars == <<portfolioVars, plVars, moreVars>>

IdleCall == [pc |-> "idle", op |-> "none", symbol |-> "", quantity |-> 0, price |-> 0,
             stockId |-> 0, holdingId |-> 0, readQty |-> 0,
             readAvg |-> FracInt(0), result |-> FALSE, failedAt |-> "none"]

\* ------------------------------------------------------ backend outcomes
\* a backend call either succeeds (ok) or fails; at most MaxFaults fail
MayFail(ok) == ok \/ faults < MaxFaults
CountFault(ok) == faults' = (IF ok THEN faults ELSE faults + 1)

\* return false: the call is back in addStock / removeStock, which has yet to
\* show its error toast; failedAt is the statement that gave up
ReturnFalse(c) ==
  calls' = [calls EXCEPT ![c] = [IdleCall EXCEPT !.pc = "failed", !.op = calls[c].op,
                                   !.symbol = calls[c].symbol,
                                   !.failedAt = calls[c].pc]]

\* supabase.auth.getUser() gives a user: no error and a session
UserAssumed(ok) == ok

UserPresent(ok) == ok /\ signedIn

\* rows of a table selected by a filter, as supabase `.single()` sees them:
\* exactly one row is the row, anything else is an error
IsSingle(rows) == Cardinality(rows) = 1
TheRow(rows) == CHOOSE r \in rows : TRUE

SymbolOf(stockId) == dbStocks[stockId]

\* ------------------------------------------- updatePortfolioHolding (buy)
\* StockActionDialog.handleAction (quantity > 0, price > 0) -> addStock
StartBuy(c, sym, q, p) ==
  /\ calls[c].pc = "idle"
  /\ \A d \in Slots : d < c => calls[d].pc # "idle"
  /\ opsStarted < MaxOps
  /\ q > 0 /\ p > 0
  /\ calls' = [calls EXCEPT ![c] = [IdleCall EXCEPT !.pc = "b_auth", !.op = "buy",
                 !.symbol = sym, !.quantity = q, !.price = p]]
  /\ opsStarted' = opsStarted + 1
  /\ UNCHANGED nonPortfolioVars
  /\ UNCHANGED <<dbStocks, dbHoldings, nextHoldingId, dbTransactions,
                 uiStocks, faults, buyLog, sellSeen>>

\* supabase.auth.getUser()
BuyGetUser(c, ok) ==
  /\ calls[c].pc = "b_auth"
  /\ MayFail(ok) /\ CountFault(ok)
  /\ IF UserPresent(ok) THEN calls' = [calls EXCEPT ![c].pc = "b_stock"]
           ELSE ReturnFalse(c)
  /\ UNCHANGED nonPortfolioVars
  /\ UNCHANGED <<dbStocks, dbHoldings, nextHoldingId, dbTransactions,
                 uiStocks, opsStarted, buyLog, sellSeen>>

\* from('stocks').select('*').eq('symbol', stockSymbol).single()
BuySelectStock(c, ok) ==
  /\ calls[c].pc = "b_stock"
  /\ MayFail(ok) /\ CountFault(ok)
  /\ LET rows == {i \in DOMAIN dbStocks : dbStocks[i] = calls[c].symbol}
     IN IF ok /\ IsSingle(rows)
          THEN calls' = [calls EXCEPT ![c].pc = "b_holding",
                                      ![c].stockId = TheRow(rows)]
          ELSE calls' = [calls EXCEPT ![c].pc = "b_details"]
  /\ UNCHANGED nonPortfolioVars
  /\ UNCHANGED <<dbStocks, dbHoldings, nextHoldingId, dbTransactions,
                 uiStocks, opsStarted, buyLog, sellSeen>>

\* rpc('get_stock_details') whose failure is ignored
BuyGetDetailsGoesOn(c, ok) ==
  /\ calls[c].pc = "b_details"
  /\ MayFail(ok) /\ CountFault(ok)
  /\ calls' = [calls EXCEPT ![c].pc = "b_insstock"]
  /\ UNCHANGED nonPortfolioVars
  /\ UNCHANGED <<dbStocks, dbHoldings, nextHoldingId, dbTransactions,
                 uiStocks, opsStarted, buyLog, sellSeen>>

\* rpc('get_stock_details')
BuyGetDetails(c, ok) ==
  /\ calls[c].pc = "b_details"
  /\ MayFail(ok) /\ CountFault(ok)
  /\ IF ok /\ calls[c].symbol \in Symbols
       THEN calls' = [calls EXCEPT ![c].pc = "b_insstock"]
           ELSE ReturnFalse(c)
  /\ UNCHANGED nonPortfolioVars
  /\ UNCHANGED <<dbStocks, dbHoldings, nextHoldingId, dbTransactions,
                 uiStocks, opsStarted, buyLog, sellSeen>>

\* from('stocks').insert(...).select().single()
BuyInsertStock(c, ok) ==
  /\ calls[c].pc = "b_insstock"
  /\ MayFail(ok) /\ CountFault(ok)
  /\ IF ok
       THEN /\ dbStocks' = Append(dbStocks, calls[c].symbol)
            /\ calls' = [calls EXCEPT ![c].pc = "b_holding",
                                      ![c].stockId = Len(dbStocks) + 1]
       ELSE /\ ReturnFalse(c)
            /\ UNCHANGED dbStocks
  /\ UNCHANGED nonPortfolioVars
  /\ UNCHANGED <<dbHoldings, nextHoldingId, dbTransactions,
                 uiStocks, opsStarted, buyLog, sellSeen>>

\* from('portfolio_holdings').select('*').eq('stock_id').eq('user_id').single()
BuySelectHolding(c, ok) ==
  /\ calls[c].pc = "b_holding"
  /\ MayFail(ok) /\ CountFault(ok)
  /\ LET rows == {h \in dbHoldings : h.stock_id = calls[c].stockId}
     IN IF ok /\ IsSingle(rows)
          THEN calls' = [calls EXCEPT ![c].pc = "b_update",
                           ![c].holdingId = TheRow(rows).id,
                           ![c].readQty = TheRow(rows).quantity,
                           ![c].readAvg = TheRow(rows).average_cost]
          ELSE calls' = [calls EXCEPT ![c].pc = "b_insert"]
  /\ UNCHANGED nonPortfolioVars
  /\ UNCHANGED <<dbStocks, dbHoldings, nextHoldingId, dbTransactions,
                 uiStocks, opsStarted, buyLog, sellSeen>>

\* newAverageCost = ((average_cost * quantity) + (price * quantity)) / newQuantity
NewAverageCost(avg, oldQty, price, qty) ==
  Frac(avg.n * oldQty + price * qty * avg.d, avg.d * (oldQty + qty))

\* the row written by the update of an existing holding
BoughtRow(h, readQty, readAvg, price, qty) ==
  [h EXCEPT !.quantity = readQty + qty,
            !.average_cost = NewAverageCost(readAvg, readQty, price, qty)]

\* from('portfolio_holdings').update({quantity, average_cost}).eq('id').eq('user_id')
BuyUpdateHolding(c, ok) ==
  /\ calls[c].pc = "b_update"
  /\ MayFail(ok) /\ CountFault(ok)
  /\ IF ok
       THEN /\ dbHoldings' =
                 {IF h.id = calls[c].holdingId
                    THEN BoughtRow(h, calls[c].readQty, calls[c].readAvg,
                                   calls[c].price, calls[c].quantity)
                    ELSE h : h \in dbHoldings}
            /\ calls' = [calls EXCEPT ![c].pc = "b_tx"]
       ELSE /\ ReturnFalse(c)
            /\ UNCHANGED dbHoldings
  /\ UNCHANGED nonPortfolioVars
  /\ UNCHANGED <<dbStocks, nextHoldingId, dbTransactions,
                 uiStocks, opsStarted, buyLog, sellSeen>>

\* from('portfolio_holdings').insert({user_id, stock_id, quantity, average_cost: price})
BuyInsertHolding(c, ok) ==
  /\ calls[c].pc = "b_insert"
  /\ MayFail(ok) /\ CountFault(ok)
  /\ IF ok
       THEN /\ dbHoldings' = dbHoldings \cup
                 {[id |-> nextHoldingId, stock_id |-> calls[c].stockId,
                   quantity |-> calls[c].quantity,
                   average_cost |-> FracInt(calls[c].price)]}
            /\ nextHoldingId' = nextHoldingId + 1
            /\ calls' = [calls EXCEPT ![c].pc = "b_tx"]
       ELSE /\ ReturnFalse(c)
            /\ UNCHANGED <<dbHoldings, nextHoldingId>>
  /\ UNCHANGED nonPortfolioVars
  /\ UNCHANGED <<dbStocks, dbTransactions,
                 uiStocks, opsStarted, buyLog, sellSeen>>

\* from('transactions').insert({... transaction_type: 'buy' ...}); return true
BuyInsertTransaction(c, ok) ==
  /\ calls[c].pc = "b_tx"
  /\ MayFail(ok) /\ CountFault(ok)
  /\ dbTransactions' =
       IF ok THEN Append(dbTransactions,
                    [stock_id |-> calls[c].stockId, transaction_type |-> "buy",
                     price |-> calls[c].price, quantity |-> calls[c].quantity])
             ELSE dbTransactions
  /\ calls' = [calls EXCEPT ![c].pc = "refresh", ![c].result = TRUE]
  /\ buyLog' = [buyLog EXCEPT ![calls[c].symbol] =
                  [qty |-> @.qty + calls[c].quantity,
                   cost |-> @.cost + calls[c].quantity * calls[c].price]]
  /\ UNCHANGED nonPortfolioVars
  /\ UNCHANGED <<dbStocks, dbHoldings, nextHoldingId,
                 uiStocks, opsStarted, sellSeen>>

\* ------------------------------------------ removePortfolioHolding (sell)
\* StockActionDialog.handleAction: quantity > 0, price > 0 and, for a sell,
\* quantity <= currentQuantity (the quantity shown by the dialog) -> removeStock
StartSell(c, id, q, p) ==
  /\ calls[c].pc = "idle"
  /\ \A d \in Slots : d < c => calls[d].pc # "idle"
  /\ opsStarted < MaxOps
  /\ q > 0 /\ p > 0
  /\ \E h \in uiStocks :
       /\ h.id = id
       /\ ~(q > h.quantity)
       /\ sellSeen' = sellSeen \cup {SymbolOf(h.stockId)}
  /\ calls' = [calls EXCEPT ![c] = [IdleCall EXCEPT !.pc = "s_holding", !.op = "sell",
                 !.holdingId = id, !.quantity = q, !.price = p]]
  /\ opsStarted' = opsStarted + 1
  /\ UNCHANGED nonPortfolioVars
  /\ UNCHANGED <<dbStocks, dbHoldings, nextHoldingId, dbTransactions,
                 uiStocks, faults, buyLog>>

\* from('portfolio_holdings').select('*, stocks(...)').eq('id', holdingId).single()
SellSelectHolding(c, ok) ==
  /\ calls[c].pc = "s_holding"
  /\ MayFail(ok) /\ CountFault(ok)
  /\ LET rows == {h \in dbHoldings : h.id = calls[c].holdingId}
     IN IF ok /\ IsSingle(rows)
          THEN calls' = [calls EXCEPT ![c].pc = "s_auth",
                           ![c].stockId = TheRow(rows).stock_id,
                           ![c].symbol = SymbolOf(TheRow(rows).stock_id),
                           ![c].readQty = TheRow(rows).quantity,
                           ![c].readAvg = TheRow(rows).average_cost]
          ELSE ReturnFalse(c)
  /\ UNCHANGED nonPortfolioVars
  /\ UNCHANGED <<dbStocks, dbHoldings, nextHoldingId, dbTransactions,
                 uiStocks, opsStarted, buyLog, sellSeen>>

\* supabase.auth.getUser()
SellGetUser(c, ok) ==
  /\ calls[c].pc = "s_auth"
  /\ MayFail(ok) /\ CountFault(ok)
  /\ IF UserPresent(ok) THEN calls' = [calls EXCEPT ![c].pc = "s_tx"]
           ELSE ReturnFalse(c)
  /\ UNCHANGED nonPortfolioVars
  /\ UNCHANGED <<dbStocks, dbHoldings, nextHoldingId, dbTransactions,
                 uiStocks, opsStarted, buyLog, sellSeen>>

\* from('transactions').insert({... transaction_type: 'sell' ...}); an error
\* is logged and the call goes on to the holding
SellInsertTransaction(c, ok) ==
  /\ calls[c].pc = "s_tx"
  /\ MayFail(ok) /\ CountFault(ok)
  /\ dbTransactions' =
       IF ok THEN Append(dbTransactions,
                    [stock_id |-> calls[c].stockId, transaction_type |-> "sell",
                     price |-> calls[c].price, quantity |-> calls[c].quantity])
             ELSE dbTransactions
  /\ calls' = [calls EXCEPT ![c].pc =
                 IF calls[c].quantity = calls[c].readQty THEN "s_delete" ELSE "s_update"]
  /\ UNCHANGED nonPortfolioVars
  /\ UNCHANGED <<dbStocks, dbHoldings, nextHoldingId,
                 uiStocks, opsStarted, buyLog, sellSeen>>

\* sellQuantity === holding.quantity: from('portfolio_holdings').delete().eq('id')
SellDeleteHolding(c, ok) ==
  /\ calls[c].pc = "s_delete"
  /\ MayFail(ok) /\ CountFault(ok)
  /\ IF ok
       THEN /\ dbHoldings' = {h \in dbHoldings : h.id # calls[c].holdingId}
            /\ calls' = [calls EXCEPT ![c].pc = "refresh", ![c].result = TRUE]
       ELSE /\ ReturnFalse(c)
            /\ UNCHANGED dbHoldings
  /\ UNCHANGED nonPortfolioVars
  /\ UNCHANGED <<dbStocks, nextHoldingId, dbTransactions,
                 uiStocks, opsStarted, buyLog, sellSeen>>

\* a partial sell that also stores the sell price as the average cost
SoldRowOverwritesAverage(h, readQty, sellQuantity, sellPrice) ==
  [h EXCEPT !.quantity = readQty - sellQuantity,
            !.average_cost = FracInt(sellPrice)]

\* the row written by a partial sell: update({ quantity: newQuantity })
SoldRow(h, readQty, sellQuantity, sellPrice) ==
  [h EXCEPT !.quantity = readQty - sellQuantity]

\* a partial sell whose failed update takes the recorded transaction back
SellUpdateHoldingRollsBack(c, ok) ==
  /\ calls[c].pc = "s_update"
  /\ MayFail(ok) /\ CountFault(ok)
  /\ IF ok
       THEN /\ dbHoldings' =
                 {IF h.id = calls[c].holdingId
                    THEN SoldRow(h, calls[c].readQty, calls[c].quantity, calls[c].price)
                    ELSE h : h \in dbHoldings}
            /\ calls' = [calls EXCEPT ![c].pc = "refresh", ![c].result = TRUE]
            /\ UNCHANGED dbTransactions
       ELSE /\ ReturnFalse(c)
            /\ dbTransactions' = SubSeq(dbTransactions, 1, Len(dbTransactions) - 1)
            /\ UNCHANGED dbHoldings
  /\ UNCHANGED nonPortfolioVars
  /\ UNCHANGED <<dbStocks, nextHoldingId,
                 uiStocks, opsStarted, buyLog, sellSeen>>

\* otherwise: update({quantity: holding.quantity - sellQuantity}).eq('id')
SellUpdateHolding(c, ok) ==
  /\ calls[c].pc = "s_update"
  /\ MayFail(ok) /\ CountFault(ok)
  /\ IF ok
       THEN /\ dbHoldings' =
                 {IF h.id = calls[c].holdingId
                    THEN SoldRow(h, calls[c].readQty, calls[c].quantity, calls[c].price)
                    ELSE h : h \in dbHoldings}
            /\ calls' = [calls EXCEPT ![c].pc = "refresh", ![c].result = TRUE]
       ELSE /\ ReturnFalse(c)
            /\ UNCHANGED dbHoldings
  /\ UNCHANGED nonPortfolioVars
  /\ UNCHANGED <<dbStocks, nextHoldingId, dbTransactions,
                 uiStocks, opsStarted, buyLog, sellSeen>>

\* ----------------------------------------------------- FinanceContext UI
\* addStock / removeStock after a false result: the error toast; `stocks` is
\* left alone
ShowError(c) ==
  /\ calls[c].pc = "failed"
  /\ calls' = [calls EXCEPT ![c] = IdleCall]
  /\ UNCHANGED nonPortfolioVars
  /\ UNCHANGED <<dbStocks, dbHoldings, nextHoldingId, dbTransactions,
                 uiStocks, opsStarted, faults, buyLog, sellSeen>>

Displayed(h) == [id |-> h.id, stockId |-> h.stock_id, quantity |-> h.quantity]

\* addStock / removeStock after success: getPortfolioHoldings(), setStocks;
\* getPortfolioHoldings returns [] when its query fails
RefreshHoldings(c, ok) ==
  /\ calls[c].pc = "refresh"
  /\ MayFail(ok) /\ CountFault(ok)
  /\ uiStocks' = IF ok THEN {Displayed(h) : h \in dbHoldings} ELSE {}
  /\ calls' = [calls EXCEPT ![c] = IdleCall]
  /\ UNCHANGED nonPortfolioVars
  /\ UNCHANGED <<dbStocks, dbHoldings, nextHoldingId, dbTransactions,
                 opsStarted, buyLog, sellSeen>>

\* 'portfolio-changes' subscription, INSERT / UPDATE event: the row is
\* fetched again by id and replaces (or is added to) the displayed entry
RealtimeUpsert(id) ==
  /\ \E h \in dbHoldings :
       /\ h.id = id
       /\ Displayed(h) \notin uiStocks
       /\ uiStocks' = {d \in uiStocks : d.id # id} \cup {Displayed(h)}
  /\ UNCHANGED nonPortfolioVars
  /\ UNCHANGED <<dbStocks, dbHoldings, nextHoldingId, dbTransactions,
                 calls, opsStarted, faults, buyLog, sellSeen>>

\* 'portfolio-changes' subscription, DELETE event
RealtimeDelete(id) ==
  /\ \E d \in uiStocks : d.id = id
  /\ \A h \in dbHoldings : h.id # id
  /\ uiStocks' = {d \in uiStocks : d.id # id}
  /\ UNCHANGED nonPortfolioVars
  /\ UNCHANGED <<dbStocks, dbHoldings, nextHoldingId, dbTransactions,
                 calls, opsStarted, faults, buyLog, sellSeen>>

\* =================================================== calculateProfitLoss
\* arithmetic on fractions; a non-finite operand gives a non-finite result
FracAdd(a, b) == Frac(a.n * b.d + b.n * a.d, a.d * b.d)
FracSub(a, b) == Frac(a.n * b.d - b.n * a.d, a.d * b.d)
FracMul(a, b) == Frac(a.n * b.n, a.d * b.d)
FracDiv(a, b) == Frac(a.n * b.d, a.d * b.n)
FracAbs(a) == [n |-> Abs(a.n), d |-> a.d]
FracPos(a) == a.d > 0 /\ a.n > 0
FracZero(a) == a.d > 0 /\ a.n = 0

\* bounds of the ledgers handed to calculateProfitLoss
MaxTxLen == 3
MaxPLQty == 2
MaxPLPrice == 2
MaxDate == 2
NumPLStocks == 2

PLStocks == 1..NumPLStocks
\* "" is a transaction whose joined stock row has no sector
PLSectors == {"", "Technology"}
PLTransactions ==
  [stockId : PLStocks, sector : PLSectors, transactionType : {"buy", "sell"},
   price : 1..MaxPLPrice, quantity : 1..MaxPLQty, transactionDate : 1..MaxDate]

RECURSIVE InsertByDate(_, _)
\* x placed behind every element that does not compare greater (stable)
InsertByDate(x, sorted) ==
  IF sorted = <<>> THEN <<x>>
  ELSE IF Head(sorted).transactionDate - x.transactionDate > 0
         THEN <<x>> \o sorted
         ELSE <<Head(sorted)>> \o InsertByDate(x, Tail(sorted))

RECURSIVE SortByDate(_)
\* [...stockTxs].sort((a, b) => date(a) - date(b)), a stable sort
SortByDate(txs) ==
  IF txs = <<>> THEN <<>>
  ELSE InsertByDate(txs[Len(txs)], SortByDate(SubSeq(txs, 1, Len(txs) - 1)))

\* the sample figures stored when no profit and no loss was found
SampleProfit == Frac(125075, 100)
SampleLoss == Frac(45025, 100)
SampleSectorData ==
  [sec \in {"Technology", "Healthcare", "Finance"} |->
     IF sec = "Technology"
       THEN [profit |-> Frac(85050, 100), loss |-> Frac(15025, 100),
             investment |-> FracInt(5000), transactionCount |-> 5]
     ELSE IF sec = "Healthcare"
       THEN [profit |-> Frac(40025, 100), loss |-> FracInt(200),
             investment |-> FracInt(3000), transactionCount |-> 3]
       ELSE [profit |-> FracInt(0), loss |-> FracInt(100),
             investment |-> FracInt(1000), transactionCount |-> 1]]

\* the running figures of one stock at the start of its replay
ReplayStart ==
  [sharesHeld |-> 0, totalCost |-> FracInt(0), profit |-> FracInt(0),
   loss |-> FracInt(0), investment |-> FracInt(0), transactionCount |-> 0]

\* an iteration whose sell leaves totalCost as it was
ReplayTxKeepsCost(acc, tx) ==
  LET counted == [acc EXCEPT !.transactionCount = @ + 1]
      amount == FracInt(tx.price * tx.quantity)
  IN IF tx.transactionType = "buy"
       THEN [counted EXCEPT !.sharesHeld = @ + tx.quantity,
                            !.totalCost = FracAdd(@, amount),
                            !.investment = FracAdd(@, amount)]
     ELSE IF tx.transactionType = "sell" /\ acc.sharesHeld > 0
       THEN LET avgCostPerShare == FracDiv(acc.totalCost, FracInt(acc.sharesHeld))
                costBasis == FracMul(avgCostPerShare, FracInt(tx.quantity))
                profitLoss == FracSub(amount, costBasis)
                left == acc.sharesHeld - tx.quantity
            IN [counted EXCEPT
                  !.profit = IF FracPos(profitLoss) THEN FracAdd(@, profitLoss) ELSE @,
                  !.loss = IF FracPos(profitLoss) THEN @ ELSE FracAdd(@, FracAbs(profitLoss)),
                  !.sharesHeld = left]
       ELSE counted

\* an iteration that books a sell of shares not held as pure gain
ReplayTxSellsUnheld(acc, tx) ==
  LET counted == [acc EXCEPT !.transactionCount = @ + 1]
      amount == FracInt(tx.price * tx.quantity)
  IN IF tx.transactionType = "buy"
       THEN [counted EXCEPT !.sharesHeld = @ + tx.quantity,
                            !.totalCost = FracAdd(@, amount),
                            !.investment = FracAdd(@, amount)]
     ELSE LET avgCostPerShare == IF acc.sharesHeld > 0
                                   THEN FracDiv(acc.totalCost, FracInt(acc.sharesHeld))
                                   ELSE FracInt(0)
              costBasis == FracMul(avgCostPerShare, FracInt(tx.quantity))
              profitLoss == FracSub(amount, costBasis)
              left == acc.sharesHeld - tx.quantity
          IN [counted EXCEPT
                !.profit = IF FracPos(profitLoss) THEN FracAdd(@, profitLoss) ELSE @,
                !.loss = IF FracPos(profitLoss) THEN @ ELSE FracAdd(@, FracAbs(profitLoss)),
                !.sharesHeld = left,
                !.totalCost = IF left > 0 THEN FracSub(acc.totalCost, costBasis)
                                          ELSE FracInt(0)]

\* one iteration of sortedTxs.forEach(tx => ...)
ReplayTx(acc, tx) ==
  LET counted == [acc EXCEPT !.transactionCount = @ + 1]
      amount == FracInt(tx.price * tx.quantity)
  IN IF tx.transactionType = "buy"
       THEN [counted EXCEPT !.sharesHeld = @ + tx.quantity,
                            !.totalCost = FracAdd(@, amount),
                            !.investment = FracAdd(@, amount)]
     ELSE IF tx.transactionType = "sell" /\ acc.sharesHeld > 0
       THEN LET avgCostPerShare == FracDiv(acc.totalCost, FracInt(acc.sharesHeld))
                costBasis == FracMul(avgCostPerShare, FracInt(tx.quantity))
                profitLoss == FracSub(amount, costBasis)
                left == acc.sharesHeld - tx.quantity
            IN [counted EXCEPT
                  !.profit = IF FracPos(profitLoss) THEN FracAdd(@, profitLoss) ELSE @,
                  !.loss = IF FracPos(profitLoss) THEN @ ELSE FracAdd(@, FracAbs(profitLoss)),
                  !.sharesHeld = left,
                  !.totalCost = IF left > 0 THEN FracSub(acc.totalCost, costBasis)
                                            ELSE FracInt(0)]
       ELSE counted

\* ---- the same loop, one iteration at a time, with the totals it adds to
MaxReplayLen == 3
\* transactions of the stock being replayed

ReplayTypes == {"buy", "sell"}
ReplayPrices == {1, 2}
ReplayQtys == {1, 2}
\* what totalProfit, totalLoss, totalInvestment and the sector's figures hold
\* from the stocks replayed before this one
ReplayPriors == {0, 3}

ReplayTransactions ==
  [transactionType : ReplayTypes, price : ReplayPrices, quantity : ReplayQtys]

\* sortedTxs of one stock
ReplayLists == UNION {[1..n -> ReplayTransactions] : n \in 0..MaxReplayLen}

NotReplaying ==
  [sortedTxs |-> <<>>, done |-> 0, active |-> FALSE, sharesHeld |-> 0,
   totalCost |-> FracInt(0), totalProfit |-> FracInt(0), totalLoss |-> FracInt(0),
   totalInvestment |-> FracInt(0),
   sector |-> [profit |-> FracInt(0), loss |-> FracInt(0), investment |-> FracInt(0),
               transactionCount |-> 0]]

\* sharesHeld = 0, totalCost = 0 and the sector record looked up or created
ReplayBegins(sortedTxs, prior) ==
  /\ ~replay.active
  /\ replay' =
       [sortedTxs |-> sortedTxs, done |-> 0, active |-> TRUE, sharesHeld |-> 0,
        totalCost |-> FracInt(0), totalProfit |-> FracInt(prior),
        totalLoss |-> FracInt(prior), totalInvestment |-> FracInt(prior),
        sector |-> [profit |-> FracInt(prior), loss |-> FracInt(prior),
                    investment |-> FracInt(prior), transactionCount |-> prior]]
  /\ UNCHANGED <<portfolioVars, plVars, gatewayVars, batchVars, quoteVars, holdingsVars,
                 sessionVars, historyVars, searchVars>>

\* the next iteration: what ReplayTx adds for the stock goes to the totals and
\* to the sector's record alike
ReplayNext ==
  /\ replay.active
  /\ replay.done < Len(replay.sortedTxs)
  /\ LET tx == replay.sortedTxs[replay.done + 1]
         a == ReplayTx([ReplayStart EXCEPT !.sharesHeld = replay.sharesHeld,
                                           !.totalCost = replay.totalCost], tx)
     IN replay' =
          [replay EXCEPT
             !.done = @ + 1,
             !.sharesHeld = a.sharesHeld,
             !.totalCost = a.totalCost,
             !.totalProfit = FracAdd(@, a.profit),
             !.totalLoss = FracAdd(@, a.loss),
             !.totalInvestment = FracAdd(@, a.investment),
             !.sector = [profit |-> FracAdd(@.profit, a.profit),
                         loss |-> FracAdd(@.loss, a.loss),
                         investment |-> FracAdd(@.investment, a.investment),
                         transactionCount |-> @.transactionCount + a.transactionCount]]
  /\ UNCHANGED <<portfolioVars, plVars, gatewayVars, batchVars, quoteVars, holdingsVars,
                 sessionVars, historyVars, searchVars>>

RECURSIVE ReplayStock(_, _)
\* the replay of one stock's date-sorted transactions
ReplayStock(acc, sortedTxs) ==
  IF sortedTxs = <<>> THEN acc
  ELSE ReplayStock(ReplayTx(acc, Head(sortedTxs)), Tail(sortedTxs))

StockIdsOf(transactions) == {transactions[i].stockId : i \in DOMAIN transactions}

\* stockTransactions[stockId], sorted
SortedTxsOf(transactions, sid) ==
  LET OfStock(t) == t.stockId = sid
  IN SortByDate(SelectSeq(transactions, OfStock))

\* the sector of the first transaction fetched, whatever its stock
SectorOfNewest(transactions, sid) ==
  LET first == Head(transactions)
  IN IF first.sector = "" THEN "Unknown" ELSE first.sector

\* sortedTxs[0].sector || 'Unknown'
SectorOfStock(transactions, sid) ==
  LET first == Head(SortedTxsOf(transactions, sid))
  IN IF first.sector = "" THEN "Unknown" ELSE first.sector

StockResult(transactions, sid) ==
  ReplayStock(ReplayStart, SortedTxsOf(transactions, sid))

\* the replay result of every stock of the list
StockResults(transactions) ==
  [sid \in StockIdsOf(transactions) |-> StockResult(transactions, sid)]

RECURSIVE SumOver(_, _, _)
\* the sum of one running figure over a set of stocks
SumOver(results, sids, field) ==
  IF sids = {} THEN FracInt(0)
  ELSE LET sid == CHOOSE x \in sids : TRUE
       IN FracAdd(results[sid][field], SumOver(results, sids \ {sid}, field))

RECURSIVE CountOver(_, _)
\* the number of transactions replayed for a set of stocks
CountOver(results, sids) ==
  IF sids = {} THEN 0
  ELSE LET sid == CHOOSE x \in sids : TRUE
       IN results[sid].transactionCount + CountOver(results, sids \ {sid})

\* sectorData after the replay of every stock
SectorData(transactions, results) ==
  LET sids == DOMAIN results
      sectorOf == [sid \in sids |-> SectorOfStock(transactions, sid)]
      secs == {sectorOf[sid] : sid \in sids}
      In(sec) == {sid \in sids : sectorOf[sid] = sec}
  IN [sec \in secs |->
        [profit |-> SumOver(results, In(sec), "profit"),
         loss |-> SumOver(results, In(sec), "loss"),
         investment |-> SumOver(results, In(sec), "investment"),
         transactionCount |-> CountOver(results, In(sec))]]

\* Math.max(1, x)
FracMax1(x) == IF FracPos(FracSub(x, FracInt(1))) THEN x ELSE FracInt(1)

\* totalProfit and totalLoss returned: the replayed sums, or the sample
\* figures when both sums are 0
ReturnedTotals(profit, loss) ==
  IF FracZero(profit) /\ FracZero(loss)
    THEN [totalProfit |-> SampleProfit, totalLoss |-> SampleLoss]
    ELSE [totalProfit |-> profit, totalLoss |-> loss]

\* calculateProfitLoss on the list returned by getUserTransactions
CalculateProfitLoss(transactions) ==
  LET results == StockResults(transactions)
      sids == DOMAIN results
      profit == SumOver(results, sids, "profit")
      loss == SumOver(results, sids, "loss")
      totalInvestment == SumOver(results, sids, "investment")
      totals == ReturnedTotals(profit, loss)
      sectorData == IF FracZero(profit) /\ FracZero(loss) /\ sids = {}
                      THEN SampleSectorData
                      ELSE SectorData(transactions, results)
      netProfitLoss == FracSub(totals.totalProfit, totals.totalLoss)
  IN [totalProfit |-> totals.totalProfit,
      totalLoss |-> totals.totalLoss,
      netProfitLoss |-> netProfitLoss,
      profitLossPercentage |->
        FracMul(FracDiv(netProfitLoss, FracMax1(totalInvestment)), FracInt(100)),
      sectorData |-> sectorData]

\* ========================================================= Quote Gateway
CACHE_DURATION == 60 * 1000
REQUEST_INTERVAL == 500

\* bounds of the gateway runs
MaxGatewayCalls == 3
\* calls of getStockQuote, getStockProfile, getHistoricalData, searchStocks
MaxTicks == 2
\* clock advances in one run

\* the clock advances by one of these amounts (ms)
TickSteps == {REQUEST_INTERVAL, CACHE_DURATION - REQUEST_INTERVAL}

Kinds == {"quote", "profile", "historical", "search"}
\* getBatchQuotes reaches the queue only through getStockQuote, one call per
\* uncached symbol, all in the same synchronous run
GatewayKeys == {"AAPL"}
Outcomes == {"ok", "invalid", "error"}

NoEntry == [timestamp |-> -1, source |-> -1]

\* isCacheValid(cacheItem) at Date.now() = t
IsCacheValid(cacheItem, t) ==
  /\ cacheItem # NoEntry
  /\ t - cacheItem.timestamp < CACHE_DURATION

\* a processQueue that leaves the flag clear
FlagLeftClear == FALSE

\* processQueue: isProcessingQueue = true
FlagWhileProcessing == TRUE

\* processQueue: if (isProcessingQueue || requestQueue.length === 0) return
ProcessQueueGuard(processing, queue) == ~processing /\ queue # <<>>

\* an enqueueRequest that only pushes
EnqueueOnlyPushes(processing) == FALSE

\* enqueueRequest: if (!isProcessingQueue) processQueue()
EnqueueStartsQueue(processing) == ~processing

\* a queue drained from its newest end
PopNewest(queue) == [request |-> queue[Len(queue)],
                     rest |-> SubSeq(queue, 1, Len(queue) - 1)]

\* requestQueue.shift()
Shift(queue) == [request |-> Head(queue), rest |-> Tail(queue)]

\* a delay that is already over when it starts
TimerDueAtOnce(t) == t

\* setTimeout(resolve, REQUEST_INTERVAL) started at time t fires from t + 500
TimerDue(t) == t + REQUEST_INTERVAL

\* the loop body up to `await request()`: the head request is dispatched
Dispatch(queue, reqs, t) ==
  LET sh == Shift(queue)
  IN [queue |-> sh.rest,
      requests |-> [reqs EXCEPT ![sh.request].state = "executing",
                                ![sh.request].dispatchedAt = t,
                                ![sh.request].dispatchNo =
                                   1 + Cardinality({i \in DOMAIN reqs : reqs[i].state # "queued"})],
      loop |-> [pc |-> "request", request |-> sh.request, timerDue |-> -1]]

\* does the kind's caller store a cache entry for this outcome, and which
CachedSource(kind, outcome, req) ==
  IF outcome = "ok" THEN req
  ELSE IF kind = "quote" \/ kind = "historical" THEN 0
  ELSE IF kind = "search" /\ outcome = "error" THEN 0
  ELSE -1

\* a call of getStockQuote / getStockProfile / getHistoricalData /
\* searchStocks, run to its first await
CallGateway(kind, key) ==
  /\ Len(gatewayCalls) < MaxGatewayCalls
  /\ LET entry == cache[<<kind, key>>]
         hit == IsCacheValid(entry, now)
         mock == ~hit /\ kind = "quote" /\ devMock
         req == Len(requests) + 1
         queued == Append(requests,
                     [kind |-> kind, key |-> key, state |-> "queued",
                      enqueuedAt |-> now, dispatchedAt |-> -1, dispatchNo |-> 0,
                      settledAt |-> -1,
                      enqueuedWhile |-> IF loops = <<>> THEN "idle" ELSE loops[1].pc,
                      overlaps |-> \E i \in DOMAIN requests :
                                     /\ requests[i].kind = kind
                                     /\ requests[i].key = key
                                     /\ requests[i].state # "settled"])
         pushed == Append(requestQueue, req)
     IN /\ gatewayCalls' = Append(gatewayCalls,
               [kind |-> kind, key |-> key, at |-> now, fromCache |-> hit,
                servedTimestamp |-> IF hit THEN entry.timestamp ELSE -1,
                request |-> IF hit \/ mock THEN 0 ELSE req])
        /\ IF hit
             THEN UNCHANGED <<cache, requests, requestQueue, isProcessingQueue,
                              loops, populated>>
           ELSE IF mock
             THEN /\ cache' = [cache EXCEPT ![<<kind, key>>] =
                                 [timestamp |-> now, source |-> 0]]
                  /\ populated' = populated \cup {<<key, now>>}
                  /\ UNCHANGED <<requests, requestQueue, isProcessingQueue, loops>>
           ELSE /\ UNCHANGED <<cache, populated>>
                /\ IF EnqueueStartsQueue(isProcessingQueue)
                      /\ ProcessQueueGuard(isProcessingQueue, pushed)
                     THEN LET d == Dispatch(pushed, queued, now)
                          IN /\ isProcessingQueue' = FlagWhileProcessing
                             /\ requestQueue' = d.queue
                             /\ requests' = d.requests
                             /\ loops' = Append(loops, d.loop)
                     ELSE /\ requestQueue' = pushed
                          /\ requests' = queued
                          /\ UNCHANGED <<isProcessingQueue, loops>>
  /\ UNCHANGED <<now, ticks, devMock>>
  /\ UNCHANGED nonGatewayVars

\* the external call of loop l settles: the caller's continuation runs
\* (cache write or fallback), then the loop starts its delay timer
Respond(l, outcome) ==
  /\ l \in DOMAIN loops
  /\ loops[l].pc = "request"
  /\ LET req == loops[l].request
         kind == requests[req].kind
         key == requests[req].key
         src == CachedSource(kind, outcome, req)
     IN /\ requests' = [requests EXCEPT ![req].state = "settled",
                                         ![req].settledAt = now]
        /\ cache' = IF src = -1 THEN cache
                    ELSE [cache EXCEPT ![<<kind, key>>] =
                            [timestamp |-> now, source |-> src]]
        /\ populated' = IF src # -1 /\ kind = "quote"
                          THEN populated \cup {<<key, now>>} ELSE populated
  /\ loops' = [loops EXCEPT ![l] = [pc |-> "timer", request |-> 0,
                                    timerDue |-> TimerDue(now)]]
  /\ UNCHANGED <<now, ticks, devMock, requestQueue, isProcessingQueue, gatewayCalls>>
  /\ UNCHANGED nonGatewayVars

\* the delay timer of loop l fires: next iteration of the while loop, or the
\* loop ends and clears isProcessingQueue
TimerFires(l) ==
  /\ l \in DOMAIN loops
  /\ loops[l].pc = "timer"
  /\ now >= loops[l].timerDue
  /\ IF requestQueue # <<>>
       THEN LET d == Dispatch(requestQueue, requests, now)
            IN /\ requestQueue' = d.queue
               /\ requests' = d.requests
               /\ loops' = [loops EXCEPT ![l] = d.loop]
               /\ UNCHANGED isProcessingQueue
       ELSE /\ isProcessingQueue' = FALSE
            /\ loops' = SubSeq(loops, 1, l - 1) \o SubSeq(loops, l + 1, Len(loops))
            /\ UNCHANGED <<requestQueue, requests>>
  /\ UNCHANGED <<now, ticks, devMock, cache, gatewayCalls, populated>>
  /\ UNCHANGED nonGatewayVars

\* the delay of loop l runs out: the clock reaches the time its timer is due
TimerElapses(l) ==
  /\ l \in DOMAIN loops
  /\ loops[l].pc = "timer"
  /\ now < loops[l].timerDue
  /\ now' = loops[l].timerDue
  /\ UNCHANGED <<ticks, devMock, cache, requests, requestQueue, isProcessingQueue,
                 loops, gatewayCalls, populated>>
  /\ UNCHANGED nonGatewayVars

\* something is waiting for the clock: a delay timer or a live cache entry
TimeMatters ==
  \/ \E l \in DOMAIN loops : loops[l].pc = "timer" /\ now < loops[l].timerDue
  \/ \E k \in DOMAIN cache : IsCacheValid(cache[k], now)

\* time passes (runs in which the clock moves while nothing waits for it
\* differ from the ones kept only by a shift of every time stamp): up to the
\* expiry of the pending delay timer, which fires when it is due, or, when no
\* timer is pending, by the rest of the cache lifetime
Tick(d) ==
  /\ ticks < MaxTicks
  /\ TimeMatters
  /\ \A l \in DOMAIN loops : loops[l].pc = "timer" => now + d <= loops[l].timerDue
  /\ (d = REQUEST_INTERVAL) => \E l \in DOMAIN loops : loops[l].pc = "timer"
  /\ now' = now + d
  /\ ticks' = ticks + 1
  /\ UNCHANGED <<devMock, cache, requests, requestQueue, isProcessingQueue,
                 loops, gatewayCalls, populated>>
  /\ UNCHANGED nonGatewayVars

\* ---------------------------------------------------------- getBatchQuotes
BATCH_SIZE == 3

MaxBatchLen == 4
\* symbols handed to one getBatchQuotes call
MaxBatches == 1
\* getBatchQuotes calls in one run
MaxBatchOther == 1
\* getStockQuote calls of other callers in a run with a batch

BatchSymbols == {"AAPL", "MSFT"}
CacheKeys == GatewayKeys \cup BatchSymbols

\* the symbol lists handed to getBatchQuotes (a symbol may occur twice:
\* getPortfolioHoldings passes one entry per holding row)
BatchLists == UNION {[1..n -> BatchSymbols] : n \in 0..MaxBatchLen}

\* the gateway state a synchronous run works on
GatewayState ==
  [cache |-> cache, requests |-> requests, requestQueue |-> requestQueue,
   isProcessingQueue |-> isProcessingQueue, loops |-> loops,
   populated |-> populated, last |-> 0]

\* getStockQuote(key) run to its first await on the gateway state g;
\* `last` is the request it handed to the queue, 0 if none
QuoteCall(g, key) ==
  LET entry == g.cache[<<"quote", key>>]
      hit == IsCacheValid(entry, now)
      req == Len(g.requests) + 1
      queued == Append(g.requests,
                  [kind |-> "quote", key |-> key, state |-> "queued",
                   enqueuedAt |-> now, dispatchedAt |-> -1, dispatchNo |-> 0,
                   settledAt |-> -1,
                   enqueuedWhile |-> IF g.loops = <<>> THEN "idle" ELSE g.loops[1].pc,
                   overlaps |-> \E i \in DOMAIN g.requests :
                                  /\ g.requests[i].kind = "quote"
                                  /\ g.requests[i].key = key
                                  /\ g.requests[i].state # "settled"])
      pushed == Append(g.requestQueue, req)
  IN IF hit THEN [g EXCEPT !.last = 0]
     ELSE IF devMock
       THEN [g EXCEPT !.cache[<<"quote", key>>] = [timestamp |-> now, source |-> 0],
                      !.populated = @ \cup {<<key, now>>},
                      !.last = 0]
     ELSE IF EnqueueStartsQueue(g.isProcessingQueue)
             /\ ProcessQueueGuard(g.isProcessingQueue, pushed)
       THEN LET d == Dispatch(pushed, queued, now)
            IN [g EXCEPT !.isProcessingQueue = FlagWhileProcessing,
                         !.requestQueue = d.queue,
                         !.requests = d.requests,
                         !.loops = Append(g.loops, d.loop),
                         !.last = req]
     ELSE [g EXCEPT !.requestQueue = pushed, !.requests = queued, !.last = req]

\* batchSymbols.map(symbol => getStockQuote(symbol)): the calls of one
\* sub-batch, made one after the other in the same synchronous run
RECURSIVE CallAll(_, _, _, _)
CallAll(g, syms, subBatch, issued) ==
  IF syms = <<>> THEN [g |-> g, issued |-> issued]
  ELSE LET g1 == QuoteCall(g, Head(syms))
       IN CallAll(g1, Tail(syms), subBatch,
                  Append(issued, [symbol |-> Head(syms), subBatch |-> subBatch,
                                  request |-> g1.last, at |-> now,
                                  earlierSettled |->
                                    \A e \in DOMAIN issued :
                                      (issued[e].subBatch < subBatch /\ issued[e].request # 0)
                                        => g.requests[issued[e].request].state = "settled"]))

\* uncachedSymbols.slice(i * BATCH_SIZE, (i + 1) * BATCH_SIZE), i counted from 1
SubBatch(uncached, i) ==
  SubSeq(uncached, (i - 1) * BATCH_SIZE + 1,
         IF i * BATCH_SIZE < Len(uncached) THEN i * BATCH_SIZE ELSE Len(uncached))

\* Math.ceil(uncachedSymbols.length / BATCH_SIZE)
BatchCount(uncached) == (Len(uncached) + BATCH_SIZE - 1) \div BATCH_SIZE

\* the requests of sub-batch i of a batch
AwaitedBy(b, i) ==
  {b.issued[e].request : e \in {x \in DOMAIN b.issued :
                                  b.issued[x].subBatch = i /\ b.issued[x].request # 0}}

\* the for loop from sub-batch b.subBatch on: a sub-batch whose quotes all
\* resolve without a queued request is followed by the next one in the same run
RECURSIVE RunBatch(_, _)
RunBatch(g, b) ==
  IF b.subBatch > BatchCount(b.uncached) THEN [g |-> g, b |-> [b EXCEPT !.pc = "done"]]
  ELSE LET r == CallAll(g, SubBatch(b.uncached, b.subBatch), b.subBatch, b.issued)
           b1 == [b EXCEPT !.issued = r.issued]
       IN IF AwaitedBy(b1, b.subBatch) # {}
            THEN [g |-> r.g, b |-> [b1 EXCEPT !.pc = "waiting"]]
          ELSE RunBatch(r.g, [b1 EXCEPT !.subBatch = @ + 1])

\* the gateway variables after a synchronous run that left state g
GatewayBecomes(g) ==
  /\ cache' = g.cache
  /\ requests' = g.requests
  /\ requestQueue' = g.requestQueue
  /\ isProcessingQueue' = g.isProcessingQueue
  /\ loops' = g.loops
  /\ populated' = g.populated

\* getBatchQuotes(symbols) up to its first pending `await Promise.all`
StartBatch(symbols) ==
  /\ Len(batches) < MaxBatches
  /\ LET valid == {s \in BatchSymbols : IsCacheValid(cache[<<"quote", s>>], now)}
         uncached == SelectSeq(symbols, LAMBDA s : s \notin valid)
         r == RunBatch(GatewayState,
                       [symbols |-> symbols, validAtStart |-> valid,
                        uncached |-> uncached, subBatch |-> 1, issued |-> <<>>,
                        pc |-> "start", startedAt |-> now])
     IN /\ batches' = Append(batches, r.b)
        /\ GatewayBecomes(r.g)
  /\ UNCHANGED <<now, ticks, devMock, gatewayCalls>>
  /\ UNCHANGED <<portfolioVars, plVars, quoteVars, holdingsVars, sessionVars, historyVars, searchVars, replayVars>>

\* every quote of the sub-batch a batch waits for has resolved
BatchReady(i) ==
  /\ batches[i].pc = "waiting"
  /\ \A r \in AwaitedBy(batches[i], batches[i].subBatch) : requests[r].state = "settled"

\* the continuation of `await Promise.all(batchPromises)`: it runs in the
\* task of the response that resolved the last quote of the sub-batch
BatchResume(i) ==
  /\ i \in DOMAIN batches
  /\ BatchReady(i)
  /\ LET r == RunBatch(GatewayState, [batches[i] EXCEPT !.subBatch = @ + 1])
     IN /\ batches' = [batches EXCEPT ![i] = r.b]
        /\ GatewayBecomes(r.g)
  /\ UNCHANGED <<now, ticks, devMock, gatewayCalls>>
  /\ UNCHANGED <<portfolioVars, plVars, quoteVars, holdingsVars, sessionVars, historyVars, searchVars, replayVars>>

NoBatchReady == \A i \in DOMAIN batches : ~BatchReady(i)

\* the gateway's other steps in a run with batches
OtherQuoteCall(key) ==
  NoBatchReady /\ Len(gatewayCalls) < MaxBatchOther /\ CallGateway("quote", key)

BatchRespond(l, outcome) == NoBatchReady /\ Respond(l, outcome)

BatchTimerFires(l) == NoBatchReady /\ TimerFires(l)

BatchTick(d) == NoBatchReady /\ Tick(d)

\* ------------------------------------------- getStockQuote: what it returns
MaxQuoteCalls == 2
\* getStockQuote calls whose return value is followed in one run

\* the empty string, a listed symbol and an unknown one
QuoteSymbols == {"", "AAPL", "ZZZZ"}

\* typeof of a field of the provider's payload
ValueKinds == {"number", "null"}

\* what the external call yields: the request is rejected (network error,
\* the 10 s timeout), the response has no data, or it has data
Payloads ==
  {[tag |-> t, c |-> "null", d |-> "null", dp |-> "null"] : t \in {"rejected", "nodata"}}
    \cup [tag : {"data"}, c : ValueKinds, d : ValueKinds, dp : ValueKinds]

NoQuote == [tag |-> "none", c |-> "null", d |-> "null", dp |-> "null"]

\* generateMockQuote(symbol): c = basePrice, d = priceChange,
\* dp = priceChange / basePrice * 100 with basePrice >= 50
GenerateMockQuote(symbol) ==
  [tag |-> "mock", c |-> "number", d |-> "number", dp |-> "number"]

\* what a getStockQuote call returns and caches: entry is cache.quotes[symbol],
\* valid is isCacheValid of it, mock the DEV mode without a key, payload the
\* outcome of the external call when one is made
GetStockQuote(symbol, entry, valid, mock, payload) ==
  IF entry # NoQuote /\ valid THEN [returned |-> entry, cached |-> entry]
  ELSE IF mock
    THEN [returned |-> GenerateMockQuote(symbol), cached |-> GenerateMockQuote(symbol)]
  ELSE IF payload.tag = "rejected"
    THEN [returned |-> GenerateMockQuote(symbol), cached |-> GenerateMockQuote(symbol)]
  ELSE IF payload.tag = "nodata" \/ payload.c # "number"
    THEN [returned |-> GenerateMockQuote(symbol), cached |-> GenerateMockQuote(symbol)]
  ELSE [returned |-> payload, cached |-> payload]

\* one getStockQuote call from its start to its return
QuoteCompletes(symbol, valid, payload) ==
  /\ Len(quoteLog) < MaxQuoteCalls
  /\ LET r == GetStockQuote(symbol, quoteCache[symbol], valid, devMock, payload)
     IN /\ quoteCache' = [quoteCache EXCEPT ![symbol] = r.cached]
        /\ quoteLog' = Append(quoteLog,
                         [symbol |-> symbol, payload |-> payload,
                          fromCache |-> quoteCache[symbol] # NoQuote /\ valid,
                          returned |-> r.returned])
  /\ UNCHANGED <<portfolioVars, plVars, gatewayVars, batchVars, holdingsVars, sessionVars, historyVars, searchVars, replayVars>>

\* ------------------------------ getPortfolioHoldings / getPortfolioSummary
MaxRows == 2
\* portfolio_holdings rows of the user

HeldSymbols == {"AAPL", "MSFT"}

\* stored quantities; a negative one is what an oversold holding keeps
HeldQuantities == {-1, 1, 2}

HeldCosts == {FracInt(1), Frac(3, 2)}

HeldRows == [symbol : HeldSymbols, quantity : HeldQuantities, average_cost : HeldCosts]

\* a field of a quote that is a number or null
Some(f) == [isNull |-> FALSE, v |-> f]
JsNull == [isNull |-> TRUE, v |-> FracInt(0)]

\* ToNumber: null counts as 0 in arithmetic
ToNumber(x) == IF x.isNull THEN FracInt(0) ELSE x.v

\* the entry of a symbol in the result of getBatchQuotes: c is a number
\* (getStockQuote checks it), d and dp are what the provider sent
QuoteChanges == {[d |-> JsNull, dp |-> JsNull]}
                  \cup {[d |-> Some(FracInt(k)), dp |-> Some(FracInt(2 * k))] : k \in {-1, 1}}

BatchQuotes ==
  {[present |-> TRUE, c |-> FracInt(c), d |-> ch.d, dp |-> ch.dp] :
     c \in {0, 1, 3}, ch \in QuoteChanges}

\* quotes[symbol] is undefined: the symbol's entry was valid when line 464
\* filtered the list and no longer valid when line 469 looked again
MissingQuote == [present |-> FALSE, c |-> FracInt(0), d |-> JsNull, dp |-> JsNull]

\* the results getBatchQuotes can give: an entry or none per symbol
QuoteResults == [HeldSymbols -> BatchQuotes \cup {MissingQuote}]

\* only the symbols asked for have an entry
QuotesFor(symbols) ==
  {q \in QuoteResults : \A s \in HeldSymbols : s \notin symbols => q[s] = MissingQuote}

\* whole > 0 ? (part / whole) * 100 : 0
PercentOfUnguarded(part, whole) ==
  FracMul(FracDiv(part, whole), FracInt(100))

PercentOf(part, whole) ==
  IF FracPos(whole) THEN FracMul(FracDiv(part, whole), FracInt(100)) ELSE FracInt(0)

\* one element of enrichedHoldings
EnrichHolding(id, row, quote) ==
  IF ~quote.present
    THEN [id |-> id, symbol |-> row.symbol, quantity |-> row.quantity,
          price |-> FracInt(0), averageCost |-> row.average_cost,
          value |-> FracInt(0), change |-> Some(FracInt(0)),
          changePercent |-> Some(FracInt(0)),
          profit |-> FracInt(0), profitPercent |-> FracInt(0)]
    ELSE LET value == FracMul(quote.c, FracInt(row.quantity))
             cost == FracMul(row.average_cost, FracInt(row.quantity))
             profit == FracSub(value, cost)
         IN [id |-> id, symbol |-> row.symbol, quantity |-> row.quantity,
             price |-> quote.c, averageCost |-> row.average_cost,
             value |-> value, change |-> quote.d, changePercent |-> quote.dp,
             profit |-> profit, profitPercent |-> PercentOf(profit, cost)]

\* holdings.map(...) with only the rows that have a quote
EnrichedHoldingsQuotedOnly(rows, quotes) ==
  LET kept == {i \in DOMAIN rows : quotes[rows[i].symbol].present}
      RECURSIVE Build(_)
      Build(i) ==
        IF i = 0 THEN <<>>
        ELSE IF i \in kept
          THEN Append(Build(i - 1), EnrichHolding(i, rows[i], quotes[rows[i].symbol]))
          ELSE Build(i - 1)
  IN Build(Len(rows))

\* holdings.map(holding => ...)
EnrichedHoldings(rows, quotes) ==
  [i \in DOMAIN rows |-> EnrichHolding(i, rows[i], quotes[rows[i].symbol])]

NotCalled ==
  [pc |-> "none", outcome |-> "none",
   quotes |-> [s \in HeldSymbols |-> MissingQuote], holdings |-> <<>>]

\* holdings.reduce((sum, holding) => sum + term(holding), 0)
RECURSIVE Reduce(_, _)
Reduce(terms, n) ==
  IF n = 0 THEN FracInt(0) ELSE FracAdd(Reduce(terms, n - 1), terms[n])

\* the summary computed from a list of enriched holdings
GetPortfolioSummaryOf(holdings) ==
  LET n == Len(holdings)
      totalValue == Reduce([i \in 1..n |-> holdings[i].value], n)
      totalCost ==
        Reduce([i \in 1..n |->
                  FracMul(holdings[i].averageCost, FracInt(holdings[i].quantity))], n)
      totalProfit == FracSub(totalValue, totalCost)
      dailyChange ==
        Reduce([i \in 1..n |->
                  FracMul(ToNumber(holdings[i].change), FracInt(holdings[i].quantity))], n)
  IN [pc |-> "returned",
      totalValue |-> totalValue,
      totalCost |-> totalCost,
      totalProfit |-> totalProfit,
      totalProfitPercent |-> PercentOf(totalProfit, totalCost),
      stockCount |-> FracInt(n),
      dailyChange |-> dailyChange,
      dailyChangePercent |-> PercentOf(dailyChange, totalValue)]

NoSummary ==
  [pc |-> "none", totalValue |-> FracInt(0), totalCost |-> FracInt(0),
   totalProfit |-> FracInt(0), totalProfitPercent |-> FracInt(0),
   stockCount |-> FracInt(0), dailyChange |-> FracInt(0),
   dailyChangePercent |-> FracInt(0)]

\* holdings.map(h => h.stocks.symbol)
SymbolsHeld == {heldRows[i].symbol : i \in DOMAIN heldRows}

\* a holding row exists in the table before the page loads
StoreRow(row) ==
  /\ holdingsResult.pc = "none"
  /\ Len(heldRows) < MaxRows
  /\ heldRows' = Append(heldRows, row)
  /\ UNCHANGED <<holdingsResult, summaryResult, published>>
  /\ UNCHANGED <<portfolioVars, plVars, gatewayVars, batchVars, quoteVars, sessionVars, historyVars, searchVars, replayVars>>

\* getPortfolioHoldings from its start to its return; outcome is what the
\* backend does: no user, the holdings query fails, or both succeed
GetPortfolioHoldings(outcome, quotes) ==
  /\ holdingsResult.pc = "none"
  /\ quotes \in QuotesFor(IF outcome = "ok" THEN SymbolsHeld ELSE {})
  /\ holdingsResult' =
       [pc |-> "returned", outcome |-> outcome, quotes |-> quotes,
        holdings |-> IF outcome = "ok" THEN EnrichedHoldings(heldRows, quotes)
                     ELSE <<>>]
  /\ UNCHANGED <<heldRows, summaryResult, published>>
  /\ UNCHANGED <<portfolioVars, plVars, gatewayVars, batchVars, quoteVars, sessionVars, historyVars, searchVars, replayVars>>

\* getPortfolioSummary(holdings) with the list getPortfolioHoldings returned
GetPortfolioSummary ==
  /\ holdingsResult.pc = "returned"
  /\ summaryResult.pc = "none"
  /\ summaryResult' = GetPortfolioSummaryOf(holdingsResult.holdings)
  /\ UNCHANGED <<heldRows, holdingsResult, published>>
  /\ UNCHANGED <<portfolioVars, plVars, gatewayVars, batchVars, quoteVars, sessionVars, historyVars, searchVars, replayVars>>

\* ------------------------------------------ FinanceProvider: the summary
ProviderOps == {"refreshData", "addStock", "removeStock"}

NotPublished == [op |-> "none", holdings |-> <<>>, summary |-> NoSummary]

\* sum / holdingsData.length, which removeStock alone guards with length > 0
MeanOf(sum, n, guarded) ==
  IF guarded /\ ~(n > 0) THEN FracInt(0) ELSE FracDiv(sum, FracInt(n))

\* summaryData as refreshData, addStock and removeStock build it
SummaryData(op, holdingsData) ==
  LET n == Len(holdingsData)
      guarded == op = "removeStock"
  IN [pc |-> "returned",
      totalValue |-> Reduce([i \in 1..n |-> holdingsData[i].value], n),
      totalCost |->
        Reduce([i \in 1..n |->
                  FracMul(holdingsData[i].averageCost,
                          FracInt(holdingsData[i].quantity))], n),
      totalProfit |-> Reduce([i \in 1..n |-> holdingsData[i].profit], n),
      totalProfitPercent |->
        MeanOf(Reduce([i \in 1..n |-> holdingsData[i].profitPercent], n), n, guarded),
      stockCount |-> FracInt(n),
      dailyChange |->
        Reduce([i \in 1..n |->
                  FracMul(ToNumber(holdingsData[i].change),
                          FracInt(holdingsData[i].quantity))], n),
      dailyChangePercent |->
        MeanOf(Reduce([i \in 1..n |-> ToNumber(holdingsData[i].changePercent)], n),
               n, guarded)]

\* refreshData, or addStock / removeStock after the service returned true:
\* getPortfolioHoldings, setStocks, setPortfolioSummary
ProviderLoads(op, outcome, quotes) ==
  /\ published.op = "none"
  /\ holdingsResult.pc = "none"
  /\ quotes \in QuotesFor(IF outcome = "ok" THEN SymbolsHeld ELSE {})
  /\ LET holdingsData == IF outcome = "ok" THEN EnrichedHoldings(heldRows, quotes)
                         ELSE <<>>
     IN /\ holdingsResult' =
             [pc |-> "returned", outcome |-> outcome, quotes |-> quotes,
              holdings |-> holdingsData]
        /\ published' = [op |-> op, holdings |-> holdingsData,
                         summary |-> SummaryData(op, holdingsData)]
  /\ UNCHANGED <<heldRows, summaryResult>>
  /\ UNCHANGED <<portfolioVars, plVars, gatewayVars, batchVars, quoteVars, sessionVars, historyVars, searchVars, replayVars>>

\* ------------------------------------------------------ session and reads
ReadFunctions == {"getPortfolioHoldings", "getUserTransactions", "getPortfolioHistory"}

NotRead == [fn |-> "none", user |-> FALSE, returned |-> "none"]

\* supabase.auth.signOut(), with no call pending
SignOut ==
  /\ signedIn
  /\ \A c \in Slots : calls[c].pc = "idle"
  /\ signedIn' = FALSE
  /\ UNCHANGED lastRead
  /\ UNCHANGED <<portfolioVars, plVars, gatewayVars, batchVars, quoteVars, holdingsVars,
                 historyVars, searchVars, replayVars>>

\* what a read function returns: the empty result when there is no user or
\* the query fails, else what the tables give ("rows", or "empty" for a
\* table without rows); getPortfolioHistory builds its series for a user
\* whatever the tables hold
ReadReturns(fn, user, ok) ==
  IF ~user \/ ~ok THEN "empty"
  ELSE IF fn = "getPortfolioHoldings"
    THEN (IF dbHoldings = {} THEN "empty" ELSE "rows")
  ELSE IF fn = "getUserTransactions"
    THEN (IF dbTransactions = <<>> THEN "empty" ELSE "rows")
  ELSE "rows"

\* a read function from its start to its return
Read(fn, ok) ==
  /\ \A c \in Slots : calls[c].pc = "idle"
  /\ lastRead' = [fn |-> fn, user |-> UserPresent(TRUE),
                  returned |-> ReadReturns(fn, UserPresent(TRUE), ok)]
  /\ lastRead' # lastRead
  /\ UNCHANGED signedIn
  /\ UNCHANGED <<portfolioVars, plVars, gatewayVars, batchVars, quoteVars, holdingsVars,
                 historyVars, searchVars, replayVars>>

\* ==================================================== analytics functions
MaxHistTx == 2
\* transactions of the user
MaxHistDay == 8
\* days that pass after the first transaction

HistStocks == {1}
HistQtys == {1, 2}
\* prices for which every average cost is a multiple of 1/2
HistPrices == {1, 4}

NoHolding == [quantity |-> 0, average_cost |-> FracInt(0)]

\* a buy or a sell through the service with every statement succeeding, made
\* today: the holding and the ledger change together
Trade(type, sid, q, p) ==
  /\ analytics.fn = "none"
  /\ Len(histTx) < MaxHistTx
  /\ type = "sell" => q <= histHoldings[sid].quantity
  /\ histHoldings' =
       [histHoldings EXCEPT ![sid] =
          IF type = "buy"
            THEN [quantity |-> @.quantity + q,
                  average_cost |-> IF @.quantity = 0 THEN FracInt(p)
                                   ELSE NewAverageCost(@.average_cost, @.quantity, p, q)]
          ELSE IF q = @.quantity THEN NoHolding
          ELSE [@ EXCEPT !.quantity = @ - q]]
  /\ histTx' = Append(histTx,
                 [stockId |-> sid, sector |-> "Technology", transactionType |-> type,
                  price |-> p, quantity |-> q, transactionDate |-> histDay])
  /\ UNCHANGED <<histDay, analytics>>
  /\ UNCHANGED <<portfolioVars, plVars, gatewayVars, batchVars, quoteVars, holdingsVars,
                 sessionVars, searchVars, replayVars>>

\* d days pass
Elapse(d) ==
  /\ analytics.fn = "none"
  /\ histDay + d <= MaxHistDay
  /\ histDay' = histDay + d
  /\ UNCHANGED <<histHoldings, histTx, analytics>>
  /\ UNCHANGED <<portfolioVars, plVars, gatewayVars, batchVars, quoteVars, holdingsVars,
                 sessionVars, searchVars, replayVars>>

RECURSIVE Reverse(_)
Reverse(seq) == IF seq = <<>> THEN <<>> ELSE Append(Reverse(Tail(seq)), Head(seq))

\* ------------------------------------------------------ getUserTransactions
\* the list it returns: newest first, or [] when getUser or the query fails
\* or anything throws
GetUserTransactionsOf(outcome) ==
  IF outcome = "ok" THEN Reverse(histTx) ELSE <<>>

\* ------------------------------------------------------ getTransactionStats
\* the month of a day: the model's day 0 is the 15th of month 0
MonthOf(day) == (day + 14) \div 30
DayOfMonth(day) == ((day + 14) % 30) + 1

RECURSIVE SumAmount(_, _)
SumAmount(transactions, type) ==
  IF transactions = <<>> THEN 0
  ELSE (IF Head(transactions).transactionType = type
          THEN Head(transactions).price * Head(transactions).quantity ELSE 0)
       + SumAmount(Tail(transactions), type)

CountType(transactions, type) ==
  Cardinality({i \in DOMAIN transactions : transactions[i].transactionType = type})

GetTransactionStatsOf(transactions) ==
  LET totalBuys == CountType(transactions, "buy")
      totalSells == CountType(transactions, "sell")
      total == totalBuys + totalSells
  IN [totalBuys |-> totalBuys,
      totalSells |-> totalSells,
      totalBuyAmount |-> SumAmount(transactions, "buy"),
      totalSellAmount |-> SumAmount(transactions, "sell"),
      buyPercentage |-> PercentOf(FracInt(totalBuys), FracInt(total)),
      sellPercentage |-> PercentOf(FracInt(totalSells), FracInt(total)),
      monthlySummary |-> {MonthOf(transactions[i].transactionDate) : i \in DOMAIN transactions}]

\* the value of the catch block
ZeroStats ==
  [totalBuys |-> 0, totalSells |-> 0, totalBuyAmount |-> 0, totalSellAmount |-> 0,
   buyPercentage |-> FracInt(0), sellPercentage |-> FracInt(0), monthlySummary |-> {}]

\* ------------------------------------------------------ calculateProfitLoss
\* what the call returns: the computation on the list getUserTransactions
\* gives, which is [] after a backend failure
CalculateProfitLossOf(outcome) ==
  CalculateProfitLoss(GetUserTransactionsOf(outcome))

\* ------------------------------------------------------ getPortfolioHistory
\* Math.ceil((today - oneMonthAgo) / day)
HistoryDays == 30

\* a generated point within a week of a real one is blended with it
BlendWindowDays == 7

\* the random number of generated monthly points, 8 + floor(random * 3)
MonthlyPointCounts == {8, 9, 10}

\* quotes[symbol]: the quote's c, or Unquoted for a symbol without a quote
Unquoted == -1
HistQuotes == [HistStocks -> {Unquoted} \cup 0..2]

\* parseFloat(x.toFixed(2)) of a value that is not negative
Round2(f) == Frac((f.n * 200 + f.d) \div (2 * f.d), 100)

\* Math.max(0, x)
FracMax0(x) == IF FracPos(x) THEN x ELSE FracInt(0)

\* quote ? quote.c : the holding's average cost
PriceOf(quotes, sid, fallback) ==
  IF quotes[sid] # Unquoted THEN FracInt(quotes[sid]) ELSE fallback

\* currentValue: holdings.reduce(total + price * quantity)
RECURSIVE CurrentValue(_, _, _)
CurrentValue(holdings, quotes, sids) ==
  IF sids = {} THEN FracInt(0)
  ELSE LET sid == CHOOSE x \in sids : TRUE
       IN FracAdd(FracMul(PriceOf(quotes, sid, holdings[sid].average_cost),
                          FracInt(holdings[sid].quantity)),
                  CurrentValue(holdings, quotes, sids \ {sid}))

\* the rows of the holdings query
RowsOf(holdings) == {sid \in DOMAIN holdings : holdings[sid].quantity # 0}

\* stockHoldings: the entries of the current holdings; present is the entry
\* being in the record
StockHoldingsOf(holdings) ==
  [sid \in DOMAIN holdings |->
     [present |-> holdings[sid].quantity # 0, quantity |-> holdings[sid].quantity,
      avgPrice |-> holdings[sid].average_cost]]

\* one transaction taken back from currentHoldings
ReverseTx(cur, tx) ==
  LET sid == tx.stockId
      entry == IF cur[sid].present THEN cur[sid]
               ELSE [present |-> TRUE, quantity |-> 0, avgPrice |-> FracInt(tx.price)]
  IN IF tx.transactionType = "buy"
       THEN IF entry.quantity - tx.quantity <= 0
              THEN [cur EXCEPT ![sid] = [entry EXCEPT !.present = FALSE,
                                                      !.quantity = @ - tx.quantity]]
              ELSE [cur EXCEPT ![sid] = [entry EXCEPT !.quantity = @ - tx.quantity]]
       ELSE [cur EXCEPT ![sid] = [entry EXCEPT !.quantity = @ + tx.quantity]]

\* currentHoldings at the end of the date k days ago: every transaction made
\* after that date has been taken back, the most recent first
RECURSIVE HoldingsAt(_, _, _, _)
HoldingsAt(holdings, transactions, today, k) ==
  LET later == SelectSeq(transactions, LAMBDA t : t.transactionDate > today - k)
      RECURSIVE Undo(_, _)
      Undo(cur, n) == IF n = 0 THEN cur ELSE Undo(ReverseTx(cur, later[n]), n - 1)
  IN Undo(StockHoldingsOf(holdings), Len(later))

\* portfolioValue of the date k days ago, as pushed to dailyValues
RECURSIVE ValueOfEntries(_, _, _)
ValueOfEntries(cur, quotes, sids) ==
  IF sids = {} THEN FracInt(0)
  ELSE LET sid == CHOOSE x \in sids : TRUE
           rest == ValueOfEntries(cur, quotes, sids \ {sid})
       IN IF cur[sid].present /\ cur[sid].quantity > 0
            THEN FracAdd(FracMul(PriceOf(quotes, sid, cur[sid].avgPrice),
                                 FracInt(cur[sid].quantity)), rest)
            ELSE rest

DailyValue(holdings, transactions, quotes, today, k) ==
  LET cur == HoldingsAt(holdings, transactions, today, k)
  IN Round2(FracMax0(ValueOfEntries(cur, quotes, DOMAIN cur)))

\* monthlyData[closestIndex].value * 0.7 + item.value * 0.3
Blend(generated, real) ==
  Frac(7 * generated.n * real.d + 3 * real.n * generated.d,
       10 * generated.d * real.d)

\* the value of the last monthly point: pushed as latestValue, then blended
\* with the daily values of the last week, the oldest first
RECURSIVE LastMonthlyPoint(_, _, _, _, _)
LastMonthlyPoint(holdings, transactions, quotes, today, k) ==
  IF k = BlendWindowDays
    THEN DailyValue(holdings, transactions, quotes, today, 0)
    ELSE Blend(LastMonthlyPoint(holdings, transactions, quotes, today, k + 1),
               DailyValue(holdings, transactions, quotes, today, k))

\* the week keys of the dates of dailyValues: year-month and
\* floor(day of month / 7)
WeekKeys(today) ==
  {<<MonthOf(today - k), DayOfMonth(today - k) \div 7>> : k \in 0..(HistoryDays - 1)}

\* the shares valued for the date k days ago: the entries of currentHoldings
\* with a positive quantity
SharesAt(holdings, transactions, today, k) ==
  LET cur == HoldingsAt(holdings, transactions, today, k)
  IN [sid \in DOMAIN cur |->
        IF cur[sid].present /\ cur[sid].quantity > 0 THEN cur[sid].quantity ELSE 0]

HistoryDates == 0..(HistoryDays - 1)

NoHistory ==
  [shape |-> "none", daily |-> 0, weekly |-> 0, monthly |-> 0,
   lastMonthly |-> FracInt(0), currentValue |-> FracInt(0),
   quotes |-> [sid \in HistStocks |-> Unquoted],
   dailyShares |-> [k \in HistoryDates |-> [sid \in HistStocks |-> 0]],
   dailyValues |-> [k \in HistoryDates |-> FracInt(0)]]

\* the three series are empty
EmptyHistory == [NoHistory EXCEPT !.shape = "series"]

\* what the call returns, each series by its length: shape is "series" for
\* { daily, weekly, monthly } and "array" for a bare []
GetPortfolioHistoryOf(outcome, quotes, points) ==
  IF outcome \in {"userError", "holdingsError", "throws"} THEN EmptyHistory
  ELSE IF outcome = "transactionsError" THEN [NoHistory EXCEPT !.shape = "array"]
  ELSE [shape |-> "series",
        daily |-> IF HistoryDays < 7 THEN HistoryDays ELSE 7,
        weekly |-> Cardinality(WeekKeys(histDay)),
        monthly |-> points,
        lastMonthly |-> LastMonthlyPoint(histHoldings, histTx, quotes, histDay, 0),
        currentValue |-> CurrentValue(histHoldings, quotes, RowsOf(histHoldings)),
        quotes |-> quotes,
        dailyShares |-> [k \in HistoryDates |-> SharesAt(histHoldings, histTx, histDay, k)],
        dailyValues |-> [k \in HistoryDates |->
                           DailyValue(histHoldings, histTx, quotes, histDay, k)]]

\* --------------------------------------------------- the calls themselves
NoAnalytics ==
  [fn |-> "none", outcome |-> "none", transactions |-> <<>>, stats |-> ZeroStats,
   profitLoss |-> CalculateProfitLoss(<<>>), history |-> NoHistory]

ReadOutcomes == {"ok", "userError", "queryError", "throws"}

GetUserTransactions(outcome) ==
  /\ analytics.fn = "none"
  /\ analytics' = [NoAnalytics EXCEPT !.fn = "getUserTransactions", !.outcome = outcome,
                     !.transactions = GetUserTransactionsOf(outcome)]
  /\ UNCHANGED <<histDay, histHoldings, histTx>>
  /\ UNCHANGED <<portfolioVars, plVars, gatewayVars, batchVars, quoteVars, holdingsVars,
                 sessionVars, searchVars, replayVars>>

GetTransactionStats(outcome) ==
  /\ analytics.fn = "none"
  /\ analytics' = [NoAnalytics EXCEPT !.fn = "getTransactionStats", !.outcome = outcome,
                     !.stats = GetTransactionStatsOf(GetUserTransactionsOf(outcome))]
  /\ UNCHANGED <<histDay, histHoldings, histTx>>
  /\ UNCHANGED <<portfolioVars, plVars, gatewayVars, batchVars, quoteVars, holdingsVars,
                 sessionVars, searchVars, replayVars>>

CalculateProfitLossCall(outcome) ==
  /\ analytics.fn = "none"
  /\ analytics' = [NoAnalytics EXCEPT !.fn = "calculateProfitLoss", !.outcome = outcome,
                     !.profitLoss = CalculateProfitLossOf(outcome)]
  /\ UNCHANGED <<histDay, histHoldings, histTx>>
  /\ UNCHANGED <<portfolioVars, plVars, gatewayVars, batchVars, quoteVars, holdingsVars,
                 sessionVars, searchVars, replayVars>>

HistoryOutcomes == {"ok", "userError", "transactionsError", "holdingsError", "throws"}

GetPortfolioHistory(outcome, quotes, points) ==
  /\ analytics.fn = "none"
  /\ outcome # "ok" => (quotes = [sid \in HistStocks |-> Unquoted] /\ points = 8)
  /\ \A sid \in HistStocks : histHoldings[sid].quantity = 0 => quotes[sid] = Unquoted
  /\ analytics' = [NoAnalytics EXCEPT !.fn = "getPortfolioHistory", !.outcome = outcome,
                     !.history = GetPortfolioHistoryOf(outcome, quotes, points)]
  /\ UNCHANGED <<histDay, histHoldings, histTx>>
  /\ UNCHANGED <<portfolioVars, plVars, gatewayVars, batchVars, quoteVars, holdingsVars,
                 sessionVars, searchVars, replayVars>>

\* ============================================================ searchStocks
MaxSearchCalls == 2
\* searchStocks calls followed in one run

\* strings are sequences of characters
LowerOf ==
  ("A" :> "a") @@ ("B" :> "b") @@ ("C" :> "c") @@ ("D" :> "d") @@ ("E" :> "e") @@ ("F" :> "f") @@ ("G" :> "g") @@ ("H" :> "h") @@ ("I" :> "i") @@ ("J" :> "j") @@ ("K" :> "k") @@ ("L" :> "l") @@ ("M" :> "m") @@ ("N" :> "n") @@ ("O" :> "o") @@ ("P" :> "p") @@ ("Q" :> "q") @@ ("R" :> "r") @@ ("S" :> "s") @@ ("T" :> "t") @@ ("U" :> "u") @@ ("V" :> "v") @@ ("W" :> "w") @@ ("X" :> "x") @@ ("Y" :> "y") @@ ("Z" :> "z")

\* String.prototype.toLowerCase
ToLowerCase(str) ==
  [i \in DOMAIN str |-> IF str[i] \in DOMAIN LowerOf THEN LowerOf[str[i]] ELSE str[i]]

\* String.prototype.trim
RECURSIVE TrimStart(_)
TrimStart(str) ==
  IF str # <<>> /\ Head(str) = " " THEN TrimStart(Tail(str)) ELSE str

RECURSIVE TrimEnd(_)
TrimEnd(str) ==
  IF str # <<>> /\ str[Len(str)] = " " THEN TrimEnd(SubSeq(str, 1, Len(str) - 1)) ELSE str

Trim(str) == TrimEnd(TrimStart(str))

\* String.prototype.includes
Includes(str, part) ==
  \E i \in 1..(Len(str) - Len(part) + 1) : SubSeq(str, i, i + Len(part) - 1) = part

\* String.prototype.startsWith
StartsWith(str, part) ==
  Len(part) <= Len(str) /\ SubSeq(str, 1, Len(part)) = part

\* the queries typed: "", " ", "a", "AAP", "aap"
Queries == {<<>>, <<" ">>, <<"a">>, <<"A", "A", "P">>, <<"a", "a", "p">>}

\* mockStocks
MockStocks ==
  <<[symbol |-> <<"A", "A", "P", "L">>,
      name |-> <<"A", "p", "p", "l", "e", " ", "I", "n", "c", ".">>],
     [symbol |-> <<"M", "S", "F", "T">>,
      name |-> <<"M", "i", "c", "r", "o", "s", "o", "f", "t", " ", "C", "o", "r", "p", "o", "r", "a", "t", "i", "o", "n">>],
     [symbol |-> <<"G", "O", "O", "G", "L">>,
      name |-> <<"A", "l", "p", "h", "a", "b", "e", "t", " ", "I", "n", "c", ".">>],
     [symbol |-> <<"A", "M", "Z", "N">>,
      name |-> <<"A", "m", "a", "z", "o", "n", ".", "c", "o", "m", " ", "I", "n", "c", ".">>],
     [symbol |-> <<"M", "E", "T", "A">>,
      name |-> <<"M", "e", "t", "a", " ", "P", "l", "a", "t", "f", "o", "r", "m", "s", " ", "I", "n", "c", ".">>],
     [symbol |-> <<"T", "S", "L", "A">>,
      name |-> <<"T", "e", "s", "l", "a", " ", "I", "n", "c", ".">>],
     [symbol |-> <<"N", "V", "D", "A">>,
      name |-> <<"N", "V", "I", "D", "I", "A", " ", "C", "o", "r", "p", "o", "r", "a", "t", "i", "o", "n">>],
     [symbol |-> <<"J", "P", "M">>,
      name |-> <<"J", "P", "M", "o", "r", "g", "a", "n", " ", "C", "h", "a", "s", "e", " ", "&", " ", "C", "o", ".">>],
     [symbol |-> <<"V">>,
      name |-> <<"V", "i", "s", "a", " ", "I", "n", "c", ".">>],
     [symbol |-> <<"W", "M", "T">>,
      name |-> <<"W", "a", "l", "m", "a", "r", "t", " ", "I", "n", "c", ".">>]>>

\* what the provider lists, in its own order of relevance
ProviderListing ==
  <<[symbol |-> <<"S", "N", "A", "A", "P">>, type |-> "Common Stock"],
     [symbol |-> <<"A", "A", "P", "L">>, type |-> "Common Stock"],
     [symbol |-> <<"A", "A", "P", "B">>, type |-> "ETP"],
     [symbol |-> <<"A", "A", "P", "C">>, type |-> "Common Stock"],
     [symbol |-> <<"A", "A", "P", "D">>, type |-> "Common Stock"],
     [symbol |-> <<"A", "A", "P", "E">>, type |-> "Common Stock"],
     [symbol |-> <<"A", "A", "P", "F">>, type |-> "Common Stock"],
     [symbol |-> <<"A", "A", "P", "G">>, type |-> "Common Stock"],
     [symbol |-> <<"A", "A", "P", "H">>, type |-> "Common Stock"],
     [symbol |-> <<"A", "A", "P", "I">>, type |-> "Common Stock"],
     [symbol |-> <<"A", "A", "P", "J">>, type |-> "Common Stock"],
     [symbol |-> <<"A", "A", "P", "K">>, type |-> "Common Stock"]>>

\* the lengths of the result arrays the provider sends
ResponseLengths == {0, 2, 3, 12}

\* what the external call yields: a result array (a prefix of the listing or
\* of its reverse), data without a result array, or a rejection
SearchPayloads ==
  {[tag |-> "result", result |-> SubSeq(ProviderListing, 1, n)] : n \in ResponseLengths}
    \cup {[tag |-> "result", result |-> SubSeq(Reverse(ProviderListing), 1, n)] :
            n \in ResponseLengths}
    \cup {[tag |-> t, result |-> <<>>] : t \in {"invalid", "rejected"}}

NotCached == [stored |-> FALSE, data |-> <<>>]

\* generateMockSearchResults(query)
GenerateMockSearchResults(query) ==
  LET q == ToLowerCase(query)
      Matches(stock) ==
        Includes(ToLowerCase(stock.symbol), q) \/ Includes(ToLowerCase(stock.name), q)
      kept == SelectSeq(MockStocks, Matches)
  IN [i \in DOMAIN kept |-> [symbol |-> kept[i].symbol, type |-> "Common Stock"]]

\* data.result.filter(item => item.type === 'Common Stock').slice(0, 10)
FilterAndLimit(result) ==
  LET IsCommon(item) == item.type = "Common Stock"
      kept == SelectSeq(result, IsCommon)
  IN SubSeq(kept, 1, IF Len(kept) < 10 THEN Len(kept) ELSE 10)

\* what a searchStocks call returns and what it leaves in cache.search[query]
SearchStocks(query, entry, valid, payload) ==
  IF Len(Trim(query)) < 1 THEN [returned |-> <<>>, cached |-> entry]
  ELSE IF entry.stored /\ valid THEN [returned |-> entry.data, cached |-> entry]
  ELSE IF payload.tag = "rejected"
    THEN [returned |-> GenerateMockSearchResults(query),
          cached |-> [stored |-> TRUE, data |-> GenerateMockSearchResults(query)]]
  ELSE IF payload.tag = "invalid" THEN [returned |-> <<>>, cached |-> entry]
  ELSE [returned |-> FilterAndLimit(payload.result),
        cached |-> [stored |-> TRUE, data |-> FilterAndLimit(payload.result)]]

\* one searchStocks call from its start to its return
SearchCompletes(query, valid, payload) ==
  /\ Len(searchLog) < MaxSearchCalls
  /\ LET r == SearchStocks(query, searchCache[query], valid, payload)
     IN /\ searchCache' = [searchCache EXCEPT ![query] = r.cached]
        /\ searchLog' = Append(searchLog, [query |-> query, returned |-> r.returned])
  /\ UNCHANGED suggestions
  /\ UNCHANGED <<portfolioVars, plVars, gatewayVars, batchVars, quoteVars, holdingsVars,
                 sessionVars, historyVars, replayVars>>

\* the comparator of the suggestion list: symbols starting with the value
\* first, then the shorter symbol
ComesBefore(a, b, value) ==
  LET aStartsWith == StartsWith(ToLowerCase(a.symbol), ToLowerCase(value))
      bStartsWith == StartsWith(ToLowerCase(b.symbol), ToLowerCase(value))
  IN IF aStartsWith /\ ~bStartsWith THEN TRUE
     ELSE IF ~aStartsWith /\ bStartsWith THEN FALSE
     ELSE Len(a.symbol) < Len(b.symbol)

\* Array.prototype.sort with that comparator (stable)
RECURSIVE SortResults(_, _)
SortResults(results, value) ==
  IF results = <<>> THEN <<>>
  ELSE LET sorted == SortResults(SubSeq(results, 1, Len(results) - 1), value)
           last == results[Len(results)]
           Stays(item) == ~ComesBefore(last, item, value)
           Moves(item) == ComesBefore(last, item, value)
       IN SelectSeq(sorted, Stays) \o <<last>> \o SelectSeq(sorted, Moves)

\* handleInputChange(value) once its debounce timer has fired: the array
\* searchStocks returned is sorted in place, and it is the array the cache
\* holds whenever searchStocks stored or found one
HandleInputChange(value, valid, payload) ==
  /\ Len(searchLog) < MaxSearchCalls
  /\ IF Len(Trim(value)) >= 1
       THEN LET r == SearchStocks(value, searchCache[value], valid, payload)
                sortedResults == SortResults(r.returned, value)
            IN /\ searchCache' =
                    [searchCache EXCEPT ![value] =
                       IF r.cached.stored /\ r.returned = r.cached.data
                         THEN [stored |-> TRUE, data |-> sortedResults]
                         ELSE r.cached]
               /\ searchLog' = Append(searchLog, [query |-> value, returned |-> r.returned])
               /\ suggestions' =
                    SubSeq(sortedResults, 1,
                           IF Len(sortedResults) < 5 THEN Len(sortedResults) ELSE 5)
       ELSE /\ suggestions' = <<>>
            /\ UNCHANGED <<searchCache, searchLog>>
  /\ UNCHANGED <<portfolioVars, plVars, gatewayVars, batchVars, quoteVars, holdingsVars,
                 sessionVars, historyVars, replayVars>>

\* --------------------------------------------------------- specifications
\* calculateProfitLoss is handed one more transaction: the list is the one
\* getUserTransactions returns, newest first, each transaction carrying the
\* sector of its stock row; stock ids are opaque, so they are numbered in
\* the order in which they first appear
AddTransaction(tx) ==
  /\ Len(plTransactions) < MaxTxLen
  /\ plTransactions # <<>> =>
       plTransactions[Len(plTransactions)].transactionDate >= tx.transactionDate
  /\ \A i \in DOMAIN plTransactions :
       plTransactions[i].stockId = tx.stockId => plTransactions[i].sector = tx.sector
  /\ \A sid \in 1..(tx.stockId - 1) : sid \in StockIdsOf(plTransactions)
  /\ plTransactions' = Append(plTransactions, tx)
  /\ plResult' = CalculateProfitLoss(plTransactions')
  /\ UNCHANGED nonPLVars

\* the same step for the ledgers on which the sectors are followed
MaxSectorTxLen == 3
SectorStocks == {1, 2}
SectorPrices == {1, 2}
SectorTransactions ==
  [stockId : SectorStocks, sector : PLSectors, transactionType : {"buy", "sell"},
   price : SectorPrices, quantity : {1}, transactionDate : {1, 2}]

AddSectorTransaction(tx) ==
  /\ Len(plTransactions) < MaxSectorTxLen
  /\ plTransactions # <<>> =>
       plTransactions[Len(plTransactions)].transactionDate >= tx.transactionDate
  /\ \A i \in DOMAIN plTransactions :
       plTransactions[i].stockId = tx.stockId => plTransactions[i].sector = tx.sector
  /\ \A sid \in 1..(tx.stockId - 1) : sid \in StockIdsOf(plTransactions)
  /\ plTransactions' = Append(plTransactions, tx)
  /\ plResult' = CalculateProfitLoss(plTransactions')
  /\ UNCHANGED nonPLVars

PortfolioStart ==
  /\ dbStocks = <<>>
  /\ dbHoldings = {}
  /\ nextHoldingId = 1
  /\ dbTransactions = <<>>
  /\ uiStocks = {}
  /\ calls = [c \in Slots |-> IdleCall]
  /\ opsStarted = 0
  /\ faults = 0
  /\ buyLog = [s \in Symbols |-> [qty |-> 0, cost |-> 0]]
  /\ sellSeen = {}

PLStart ==
  /\ plTransactions = <<>>
  /\ plResult = CalculateProfitLoss(<<>>)

GatewayStart ==
  /\ now = 0
  /\ ticks = 0
  /\ cache = [k \in Kinds \X CacheKeys |-> NoEntry]
  /\ requests = <<>>
  /\ requestQueue = <<>>
  /\ isProcessingQueue = FALSE
  /\ loops = <<>>
  /\ gatewayCalls = <<>>
  /\ populated = {}

BatchStart == batches = <<>>

QuoteStart ==
  /\ quoteCache = [s \in QuoteSymbols |-> NoQuote]
  /\ quoteLog = <<>>

HoldingsStart ==
  /\ heldRows = <<>>
  /\ holdingsResult = NotCalled
  /\ summaryResult = NoSummary
  /\ published = NotPublished

SessionStart ==
  /\ signedIn = TRUE
  /\ lastRead = NotRead

HistoryStart ==
  /\ histDay = 0
  /\ histHoldings = [sid \in HistStocks |-> NoHolding]
  /\ histTx = <<>>
  /\ analytics = NoAnalytics

SearchStart ==
  /\ searchCache = [q \in Queries |-> NotCached]
  /\ searchLog = <<>>
  /\ suggestions = <<>>

ReplayIdleStart == replay = NotReplaying

MoreStart ==
  /\ BatchStart /\ QuoteStart /\ HoldingsStart /\ SessionStart /\ HistoryStart
  /\ SearchStart /\ ReplayIdleStart

InitPortfolio ==
  PortfolioStart /\ PLStart /\ GatewayStart /\ MoreStart /\ devMock = FALSE

HoldingIds == 1..MaxOps

CallStep(c) ==
  \E ok \in BOOLEAN :
    \/ BuyGetUser(c, ok)
    \/ BuySelectStock(c, ok)
    \/ BuyGetDetails(c, ok)
    \/ BuyInsertStock(c, ok)
    \/ BuySelectHolding(c, ok)
    \/ BuyUpdateHolding(c, ok)
    \/ BuyInsertHolding(c, ok)
    \/ BuyInsertTransaction(c, ok)
    \/ SellSelectHolding(c, ok)
    \/ SellGetUser(c, ok)
    \/ SellInsertTransaction(c, ok)
    \/ SellDeleteHolding(c, ok)
    \/ SellUpdateHolding(c, ok)
    \/ RefreshHoldings(c, ok)
    \/ ShowError(c)

Realtime ==
  \E id \in HoldingIds : RealtimeUpsert(id) \/ RealtimeDelete(id)

\* calls may overlap: the dialog can be dismissed while a call is pending
NextPortfolio ==
  \/ \E c \in Slots, sym \in Symbols, q \in Qtys, p \in Prices : StartBuy(c, sym, q, p)
  \/ \E c \in Slots, id \in HoldingIds, q \in Qtys, p \in Prices : StartSell(c, id, q, p)
  \/ \E c \in Slots : CallStep(c)
  \/ Realtime

SpecPortfolio == InitPortfolio /\ [][NextPortfolio]_vars

\* one call at a time: a call starts only when no other call is pending
NoCallPending == \A c \in Slots : calls[c].pc = "idle"

SerialBuy(c, sym, q, p) ==
  NoCallPending /\ opsStarted < MaxSerialOps /\ StartBuy(c, sym, q, p)

SerialSell(c, id, q, p) ==
  NoCallPending /\ opsStarted < MaxSerialOps /\ StartSell(c, id, q, p)

NextSerial ==
  \/ \E c \in Slots, sym \in Symbols, q \in Qtys, p \in Prices : SerialBuy(c, sym, q, p)
  \/ \E c \in Slots, id \in HoldingIds, q \in Qtys, p \in Prices : SerialSell(c, id, q, p)
  \/ \E c \in Slots : CallStep(c)
  \/ Realtime

SpecSerial == InitPortfolio /\ [][NextSerial]_vars

\* the service with a session that can end: calls one at a time, sign-out,
\* and the read functions
SessionQtys == {1, 2}

NextSession ==
  \/ \E c \in Slots, sym \in Symbols \cup {UnlistedSymbol}, q \in SessionQtys :
       SerialBuy(c, sym, q, 1)
  \/ \E c \in Slots, id \in HoldingIds, q \in SessionQtys : SerialSell(c, id, q, 1)
  \/ \E c \in Slots : CallStep(c)
  \/ Realtime
  \/ SignOut
  \/ \E fn \in ReadFunctions, ok \in BOOLEAN : Read(fn, ok)

SpecSession == InitPortfolio /\ [][NextSession]_vars

\* calculateProfitLoss applied to every bounded ledger
InitPL == PortfolioStart /\ PLStart /\ GatewayStart /\ MoreStart /\ devMock = FALSE

NextPL == \E tx \in PLTransactions : AddTransaction(tx)

SpecPL == InitPL /\ [][NextPL]_vars

LoopIds == 1..MaxGatewayCalls

\* getBatchQuotes next to another caller of getStockQuote
InitBatch ==
  PortfolioStart /\ PLStart /\ GatewayStart /\ MoreStart /\ devMock \in BOOLEAN

BatchIds == 1..MaxBatches

NextBatch ==
  \/ \E symbols \in BatchLists : StartBatch(symbols)
  \/ \E i \in BatchIds : BatchResume(i)
  \/ \E key \in BatchSymbols : OtherQuoteCall(key)
  \/ \E l \in LoopIds, outcome \in Outcomes : BatchRespond(l, outcome)
  \/ \E l \in LoopIds : BatchTimerFires(l)
  \/ \E d \in TickSteps : BatchTick(d)

SpecBatch == InitBatch /\ [][NextBatch]_vars

\* getStockQuote for every symbol, cache state and outcome of the external call
InitQuote ==
  PortfolioStart /\ PLStart /\ GatewayStart /\ MoreStart /\ devMock \in BOOLEAN

NextQuote ==
  \E symbol \in QuoteSymbols, valid \in BOOLEAN, payload \in Payloads :
    QuoteCompletes(symbol, valid, payload)

SpecQuote == InitQuote /\ [][NextQuote]_vars

\* the portfolio page: the stored rows, getPortfolioHoldings, getPortfolioSummary
InitHoldings ==
  PortfolioStart /\ PLStart /\ GatewayStart /\ MoreStart /\ devMock = FALSE

HoldingsOutcomes == {"ok", "noUser", "queryError"}

NextHoldings ==
  \/ \E row \in HeldRows : StoreRow(row)
  \/ \E outcome \in HoldingsOutcomes, quotes \in QuoteResults :
       GetPortfolioHoldings(outcome, quotes)
  \/ GetPortfolioSummary

SpecHoldings == InitHoldings /\ [][NextHoldings]_vars

\* the provider loading the holdings of every bounded portfolio
NextProvider ==
  \/ \E row \in HeldRows : StoreRow(row)
  \/ \E op \in ProviderOps, outcome \in HoldingsOutcomes, quotes \in QuoteResults :
       ProviderLoads(op, outcome, quotes)

SpecProvider == InitHoldings /\ [][NextProvider]_vars

\* the analytics functions on every bounded history of trades
InitHistory ==
  PortfolioStart /\ PLStart /\ GatewayStart /\ MoreStart /\ devMock = FALSE

NextHistory ==
  \/ \E type \in {"buy", "sell"}, sid \in HistStocks, q \in HistQtys, p \in HistPrices :
       Trade(type, sid, q, p)
  \/ \E d \in {1, BlendWindowDays} : Elapse(d)
  \/ \E outcome \in ReadOutcomes : GetUserTransactions(outcome)
  \/ \E outcome \in ReadOutcomes : GetTransactionStats(outcome)
  \/ \E outcome \in ReadOutcomes : CalculateProfitLossCall(outcome)
  \/ \E outcome \in HistoryOutcomes, quotes \in HistQuotes, points \in MonthlyPointCounts :
       GetPortfolioHistory(outcome, quotes, points)

SpecHistory == InitHistory /\ [][NextHistory]_vars

\* searchStocks for every query, cache state and outcome of the external call
InitSearch ==
  PortfolioStart /\ PLStart /\ GatewayStart /\ MoreStart /\ devMock = FALSE

NextSearch ==
  \E query \in Queries, valid \in BOOLEAN, payload \in SearchPayloads :
    \/ SearchCompletes(query, valid, payload)
    \/ HandleInputChange(query, valid, payload)

SpecSearch == InitSearch /\ [][NextSearch]_vars

\* the replay loop of calculateProfitLoss over every list of one stock
InitReplay ==
  PortfolioStart /\ PLStart /\ GatewayStart /\ MoreStart /\ devMock = FALSE

NextReplay ==
  \/ \E sortedTxs \in ReplayLists, prior \in ReplayPriors : ReplayBegins(sortedTxs, prior)
  \/ ReplayNext

SpecReplay == InitReplay /\ [][NextReplay]_vars

\* calculateProfitLoss on ledgers of two stocks in either sector
NextSector == \E tx \in SectorTransactions : AddSectorTransaction(tx)

SpecSector == InitPL /\ [][NextSector]_vars

\* the gateway under any interleaving of callers, responses and timers
InitGateway ==
  PortfolioStart /\ PLStart /\ GatewayStart /\ MoreStart /\ devMock \in BOOLEAN

NextGateway ==
  \/ \E kind \in Kinds, key \in GatewayKeys : CallGateway(kind, key)
  \/ \E l \in LoopIds, outcome \in Outcomes : Respond(l, outcome)
  \/ \E l \in LoopIds : TimerFires(l)
  \/ \E d \in TickSteps : Tick(d)

SpecGateway == InitGateway /\ [][NextGateway]_vars

\* the queue with callers arriving at any moment; every external call
\* settles (the client has a timeout) and every delay runs out and fires
QueueKinds == {"quote", "profile"}

NextQueue ==
  \/ \E kind \in QueueKinds, key \in GatewayKeys : CallGateway(kind, key)
  \/ \E l \in LoopIds, outcome \in Outcomes : Respond(l, outcome)
  \/ \E l \in LoopIds : TimerElapses(l)
  \/ \E l \in LoopIds : TimerFires(l)

SpecQueue ==
  /\ InitGateway /\ [][NextQueue]_vars
  /\ WF_vars(\E l \in LoopIds, outcome \in Outcomes : Respond(l, outcome))
  /\ WF_vars(\E l \in LoopIds : TimerElapses(l))
  /\ WF_vars(\E l \in LoopIds : TimerFires(l))

\* ================================================================ claims
HoldingsOfSymbol(s) ==
  {h \in dbHoldings : SymbolOf(h.stock_id) = s}

NoBuyInProgress ==
  \A c \in Slots : calls[c].pc \in {"idle", "refresh"}

\* C1 (as stated): after any sequence of buys of one symbol that returned
\* true, with no sell of that symbol, the symbol has one stored holding whose
\* quantity is the sum of the bought quantities and whose averageCost is
\* sum(qi*pi) / sum(qi)
C1_WeightedAverageAsStated ==
  \A s \in Symbols :
    (NoBuyInProgress /\ buyLog[s].qty > 0 /\ s \notin sellSeen)
      => /\ IsSingle(HoldingsOfSymbol(s))
         /\ \A h \in HoldingsOfSymbol(s) :
              /\ h.quantity = buyLog[s].qty
              /\ h.average_cost = Frac(buyLog[s].cost, buyLog[s].qty)

RowsWithId(holdings, id) == {h \in holdings : h.id = id}

\* C2: a sell that returns true of k shares of a holding read with quantity
\* n leaves the row with the same averageCost and quantity n - k when
\* 0 < k < n, and removes the row when k = n
C2_SellNeutrality ==
  [][\A c \in Slots :
       (calls[c].pc \in {"s_update", "s_delete"} /\ calls'[c].result)
         => LET before == RowsWithId(dbHoldings, calls[c].holdingId)
                after == RowsWithId(dbHoldings', calls[c].holdingId)
                k == calls[c].quantity
            IN \A h \in before :
                 /\ (k = h.quantity) => after = {}
                 /\ (0 < k /\ k < h.quantity) =>
                      /\ IsSingle(after)
                      /\ \A a \in after :
                           /\ a.quantity = h.quantity - k
                           /\ a.average_cost = h.average_cost
                           /\ a.stock_id = h.stock_id
    ]_vars

\* C2 witness: a partial sell at a price other than the holding's average
\* cost has returned true, and the row still carries that average
C2_PartialSellDone ==
  \E c \in Slots :
    /\ calls[c].op = "sell" /\ calls[c].pc = "refresh" /\ calls[c].result
    /\ calls[c].quantity < calls[c].readQty
    /\ FracInt(calls[c].price) # calls[c].readAvg
    /\ \E h \in dbHoldings :
         /\ h.id = calls[c].holdingId
         /\ h.quantity = calls[c].readQty - calls[c].quantity
         /\ h.average_cost = calls[c].readAvg

\* C3 (as stated): every stored holding has a quantity >= 0 and no holding
\* with quantity 0 is stored
C3_HoldingQuantityPositive ==
  \A h \in dbHoldings : h.quantity >= 0 /\ h.quantity # 0

RECURSIVE SumQty(_, _, _)
\* total quantity of the transactions of one type for one stock in a ledger
SumQty(txs, stockId, type) ==
  IF txs = <<>> THEN 0
  ELSE (IF Head(txs).stock_id = stockId /\ Head(txs).transaction_type = type
          THEN Head(txs).quantity ELSE 0)
       + SumQty(Tail(txs), stockId, type)

\* C4 (as stated): in every prefix of a stock's transactions the cumulative
\* SELL quantity does not exceed the cumulative BUY quantity
C4_LedgerSellsCovered ==
  \A n \in 0..Len(dbTransactions) :
    \A sid \in DOMAIN dbStocks :
      SumQty(SubSeq(dbTransactions, 1, n), sid, "sell")
        <= SumQty(SubSeq(dbTransactions, 1, n), sid, "buy")

\* ------------------------------------------------------------------- C5
\* total cost and quantity of the buys of a list
RECURSIVE BuyCost(_)
BuyCost(txs) ==
  IF txs = <<>> THEN 0
  ELSE (IF Head(txs).transactionType = "buy"
          THEN Head(txs).price * Head(txs).quantity ELSE 0) + BuyCost(Tail(txs))

RECURSIVE BuyQty(_)
BuyQty(txs) ==
  IF txs = <<>> THEN 0
  ELSE (IF Head(txs).transactionType = "buy" THEN Head(txs).quantity ELSE 0)
       + BuyQty(Tail(txs))

\* one instrument, buys followed in date order by one sell of every share
BuysThenFullSell(txs) ==
  LET sorted == SortByDate(txs)
      n == Len(sorted)
  IN /\ n >= 2
     /\ \A i \in 1..n : sorted[i].stockId = sorted[1].stockId
     /\ \A i \in 1..(n - 1) : sorted[i].transactionType = "buy"
     /\ sorted[n].transactionType = "sell"
     /\ sorted[n].quantity = BuyQty(sorted)

SellProceeds(txs) ==
  LET last == SortByDate(txs)[Len(txs)]
  IN last.price * last.quantity

\* C5 (as stated): for buys of total cost C followed by one sell of all the
\* shares at price P, totalProfit - totalLoss = P*qty - C, also when P*qty = C
C5_ProfitLossConservationAsStated ==
  BuysThenFullSell(plTransactions)
    => FracSub(plResult.totalProfit, plResult.totalLoss)
         = FracInt(SellProceeds(plTransactions) - BuyCost(plTransactions))

\* ------------------------------------------------------------------- C6
IsQuoteCallStep ==
  /\ Len(gatewayCalls') = Len(gatewayCalls) + 1
  /\ gatewayCalls'[Len(gatewayCalls')].kind = "quote"

NewCall == gatewayCalls'[Len(gatewayCalls')]

OneNewQuoteRequest(key) ==
  /\ Len(requests') = Len(requests) + 1
  /\ requests'[Len(requests')].kind = "quote"
  /\ requests'[Len(requests')].key = key
  /\ NewCall.request = Len(requests')
  /\ ~NewCall.fromCache

\* C6 (as stated), with an API key configured: for every time t at which a
\* getStockQuote call populated the cache, a call started before t + TTL is
\* served from the cache with no external call, and the first call started at
\* or after t + TTL makes exactly one new external call
C6_CacheTTLAsStated ==
  [][(IsQuoteCallStep /\ ~devMock) =>
       \A p \in populated :
         p[1] = NewCall.key =>
           /\ now < p[2] + CACHE_DURATION
                => (NewCall.fromCache /\ Len(requests') = Len(requests))
           /\ (/\ now >= p[2] + CACHE_DURATION
               /\ ~\E i \in DOMAIN gatewayCalls :
                     /\ gatewayCalls[i].kind = "quote"
                     /\ gatewayCalls[i].key = NewCall.key
                     /\ gatewayCalls[i].at >= p[2] + CACHE_DURATION)
                => OneNewQuoteRequest(NewCall.key)
    ]_vars

\* ------------------------------------------------------------------- C7
\* C7 (as stated): a getStockQuote call made while an earlier request for
\* the same symbol is queued or executing causes no second external call
C7_NoSecondCallWhileInFlight ==
  \A i \in DOMAIN requests :
    requests[i].kind = "quote" => ~requests[i].overlaps

\* ------------------------------------------------------------------- C8
Executing == {i \in DOMAIN requests : requests[i].state = "executing"}

\* C8: at most one queued external request is executing and at most one
\* processQueue loop is active
C8_SingleInFlight ==
  /\ Cardinality(Executing) <= 1
  /\ Len(loops) <= 1

\* C8 witness: a request is executing while requests of two other callers wait
C8_BusyWithBacklog ==
  /\ Cardinality(Executing) = 1
  /\ Len(requestQueue) = 2
  /\ Cardinality({requests[i].kind : i \in DOMAIN requests}) = 3

\* ------------------------------------------------------------------- C9
\* C9: the k-th request dispatched is the k-th request enqueued
C9_FifoDispatch ==
  \A i \in DOMAIN requests :
    requests[i].dispatchNo # 0 => requests[i].dispatchNo = i

\* C9 witness: the first request, a quote, got no usable response (its
\* caller cached the fallback quote), the second one enqueued was dispatched
\* next and the third still waits
C9_SecondAfterFailure ==
  /\ Len(requests) = 3
  /\ requests[1].kind = "quote" /\ requests[1].state = "settled"
  /\ cache[<<"quote", requests[1].key>>].source = 0
  /\ requests[2].enqueuedWhile = "request" /\ requests[3].enqueuedWhile = "request"
  /\ requests[2].dispatchNo = 2
  /\ requests[3].state = "queued"

\* ------------------------------------------------------------------ C10
\* C10: a dispatch follows the previous one's completion by at least
\* REQUEST_INTERVAL
C10_MinimumDelay ==
  \A i, j \in DOMAIN requests :
    (requests[i].dispatchNo >= 1 /\ requests[j].dispatchNo = requests[i].dispatchNo + 1)
      => /\ requests[i].state = "settled"
         /\ requests[j].dispatchedAt >= requests[i].settledAt + REQUEST_INTERVAL

\* C10 witness: a request enqueued during the delay and one enqueued after
\* the queue had drained have both been dispatched
C10_DispatchedAfterDelay ==
  \E i, j \in DOMAIN requests :
    /\ requests[i].enqueuedWhile = "timer" /\ requests[i].dispatchNo # 0
    /\ requests[j].enqueuedWhile = "idle" /\ requests[j].dispatchNo > 1

\* ------------------------------------------------------------------ C11
SymbolsOf(seq) == {seq[i] : i \in DOMAIN seq}

\* the requests a batch handed to the queue for a symbol
BatchRequestsFor(b, s) ==
  {e \in DOMAIN b.issued : b.issued[e].symbol = s /\ b.issued[e].request # 0}

\* no external call for a symbol whose cache entry was valid at the start
BatchSkipsCached(b) ==
  \A s \in b.validAtStart : BatchRequestsFor(b, s) = {}

\* one external call for each distinct symbol that was a cache miss
BatchOneCallPerMiss(b) ==
  \A s \in SymbolsOf(b.symbols) \ b.validAtStart :
    /\ Cardinality(BatchRequestsFor(b, s)) <= 1
    /\ b.pc = "done" => Cardinality(BatchRequestsFor(b, s)) = 1

\* a sub-batch starts only when every quote of the earlier ones has resolved
BatchSubBatchesInOrder(b) ==
  \A e \in DOMAIN b.issued : b.issued[e].earlierSettled

\* C11 (as stated), with an API key configured: getBatchQuotes issues no
\* external call for a symbol whose cache entry is valid when the call
\* starts, exactly one external call per distinct cache-miss symbol, and
\* starts no sub-batch before every quote of the previous one has resolved
C11_BatchQuotesAsStated ==
  ~devMock =>
    \A i \in DOMAIN batches :
      /\ BatchSkipsCached(batches[i])
      /\ BatchOneCallPerMiss(batches[i])
      /\ BatchSubBatchesInOrder(batches[i])

\* ------------------------------------------------------------------ C12
\* the fields c, d and dp of a returned quote are numbers
WellFormedQuote(q) ==
  /\ q.tag \in {"data", "mock"}
  /\ q.c = "number" /\ q.d = "number" /\ q.dp = "number"

\* C12 (as stated): for every symbol and every outcome of the external call
\* getStockQuote returns, without throwing, a quote whose c, d and dp are
\* numbers, never null
C12_QuoteTotalAsStated ==
  \A i \in DOMAIN quoteLog : WellFormedQuote(quoteLog[i].returned)

\* ------------------------------------------------------------------ C13
SummaryFields(r) ==
  {r.totalValue, r.totalCost, r.totalProfit, r.totalProfitPercent,
   r.stockCount, r.dailyChange, r.dailyChangePercent}

\* a number that is neither NaN nor infinite
Finite(f) == f.d > 0

C14_EveryHoldingEmitted ==
  (holdingsResult.pc = "returned" /\ holdingsResult.outcome = "ok") =>
    /\ Len(holdingsResult.holdings) = Len(heldRows)
    /\ \A i \in DOMAIN heldRows :
         LET h == holdingsResult.holdings[i]
         IN /\ h.id = i
            /\ h.symbol = heldRows[i].symbol
            /\ h.quantity = heldRows[i].quantity
            /\ h.averageCost = heldRows[i].average_cost
            /\ ~holdingsResult.quotes[h.symbol].present =>
                 /\ h.price = FracInt(0) /\ h.value = FracInt(0)
                 /\ h.change = Some(FracInt(0)) /\ h.changePercent = Some(FracInt(0))
                 /\ h.profit = FracInt(0) /\ h.profitPercent = FracInt(0)

\* a returned list with a holding that has no quote, of a stock held at a
\* cost, next to one that has a quote
C14_HoldingWithoutQuote ==
  /\ holdingsResult.pc = "returned" /\ holdingsResult.outcome = "ok"
  /\ \E i, j \in DOMAIN heldRows :
       /\ ~holdingsResult.quotes[heldRows[i].symbol].present
       /\ holdingsResult.quotes[heldRows[j].symbol].present
       /\ holdingsResult.holdings[j].price # FracInt(0)

\* ------------------------------------------------------------------ C15
Tables == <<dbStocks, dbHoldings, dbTransactions>>

\* the statements of a call that come before and at its getUser
UpToGetUser == {"idle", "b_auth", "s_holding", "s_auth", "failed"}

\* C15: while there is no authenticated user, addStock and removeStock return
\* false (a call gets no further than its getUser), the read functions
\* return their empty result, and no step creates, modifies or deletes a
\* stock, holding or transaction row
C15_NoUserNoEffect ==
  /\ [](~signedIn =>
          /\ \A c \in Slots : calls[c].pc \in UpToGetUser /\ ~calls[c].result
          /\ ~lastRead.user => lastRead.returned \in {"none", "empty"})
  /\ [][~signedIn => Tables' = Tables]_vars

\* signed out with rows in all three tables: a sell has just been refused at
\* its getUser and the last read came back empty
C15_RefusedWithRows ==
  /\ ~signedIn
  /\ dbStocks # <<>> /\ dbHoldings # {} /\ dbTransactions # <<>>
  /\ \E c \in Slots : /\ calls[c].pc = "failed" /\ calls[c].op = "sell"
                      /\ calls[c].failedAt = "s_auth"
  /\ lastRead.fn = "getPortfolioHoldings" /\ ~lastRead.user
  /\ lastRead.returned = "empty"

\* ------------------------------------------------------------------ C16
\* the statements of addStock up to the stock-details fetch
UpToDetails == {"b_auth", "b_stock", "b_details"}

\* the step of a call in which its details fetch fails or returns nothing
DetailsFetchFails(c) ==
  /\ calls[c].pc = "b_details" /\ calls'[c] # calls[c]
  /\ faults' # faults \/ calls[c].symbol \notin Symbols

\* C16: an addStock call for a symbol without a stocks row whose details
\* fetch fails or returns nothing returns false there, and no statement of
\* the call up to that point creates or changes a stock, holding or
\* transaction row
C16_NotFoundNoEffect ==
  [][\A c \in Slots :
       /\ (calls[c].op = "buy" /\ calls[c].pc \in UpToDetails) => Tables' = Tables
       /\ DetailsFetchFails(c) =>
            /\ calls'[c].pc = "failed" /\ ~calls'[c].result
            /\ calls'[c].failedAt = "b_details"]_vars

\* a call for the unlisted symbol, which has no stocks row, has returned
\* false at the details fetch while rows of another stock exist
C16_DetailsFetchFailed ==
  /\ dbStocks # <<>> /\ dbHoldings # {} /\ dbTransactions # <<>>
  /\ \A i \in DOMAIN dbStocks : dbStocks[i] # UnlistedSymbol
  /\ \E c \in Slots : /\ calls[c].pc = "failed" /\ calls[c].op = "buy"
                      /\ calls[c].symbol = UnlistedSymbol
                      /\ calls[c].failedAt = "b_details"

\* ------------------------------------------------------------------ C17
\* the result of calculateProfitLoss is the zeroed default
ZeroProfitLoss(r) ==
  /\ FracZero(r.totalProfit) /\ FracZero(r.totalLoss)
  /\ FracZero(r.netProfitLoss) /\ FracZero(r.profitLossPercentage)
  /\ DOMAIN r.sectorData = {}

\* C17 (as stated): after a backend failure getUserTransactions returns [],
\* getTransactionStats its zeroed result, calculateProfitLoss totals of 0 with
\* no sector, and getPortfolioHistory three empty series
C17_FailureDefaultsAsStated ==
  analytics.outcome \notin {"none", "ok"} =>
    /\ analytics.fn = "getUserTransactions" => analytics.transactions = <<>>
    /\ analytics.fn = "getTransactionStats" => analytics.stats = ZeroStats
    /\ analytics.fn = "calculateProfitLoss" => ZeroProfitLoss(analytics.profitLoss)
    /\ analytics.fn = "getPortfolioHistory" => analytics.history = EmptyHistory

\* ------------------------------------------------------------------ C18
\* C18 (as stated): the last point of the monthly series getPortfolioHistory
\* returns equals the current portfolio value, the sum over the holdings of
\* current price * quantity
C18_FinalPointAsStated ==
  (analytics.fn = "getPortfolioHistory" /\ analytics.outcome = "ok") =>
    analytics.history.lastMonthly = analytics.history.currentValue

\* ------------------------------------------------------------------ C19
\* C19 (as stated): for a user with no transactions or no holdings
\* getPortfolioHistory returns empty daily, weekly and monthly series
C19_DegenerateHistoryAsStated ==
  (analytics.fn = "getPortfolioHistory" /\ analytics.outcome = "ok"
     /\ (histTx = <<>> \/ RowsOf(histHoldings) = {})) =>
    /\ analytics.history.daily = 0
    /\ analytics.history.weekly = 0
    /\ analytics.history.monthly = 0

\* ------------------------------------------------------------------ C20
\* the symbol starts with the query, whatever the case of either
PrefixMatch(item, query) ==
  StartsWith(ToLowerCase(item.symbol), ToLowerCase(query))

OnlyCommonStock(returned) ==
  \A i \in DOMAIN returned : returned[i].type = "Common Stock"

PrefixMatchesFirst(returned, query) ==
  \A i, j \in DOMAIN returned :
    (PrefixMatch(returned[i], query) /\ ~PrefixMatch(returned[j], query)) => i < j

\* C20 (as stated): searchStocks returns only Common Stock entries, at most
\* 10 of them, and every returned entry whose symbol starts with the query
\* comes before every returned entry whose symbol does not
C20_SearchAsStated ==
  \A k \in DOMAIN searchLog :
    /\ OnlyCommonStock(searchLog[k].returned)
    /\ Len(searchLog[k].returned) <= 10
    /\ PrefixMatchesFirst(searchLog[k].returned, searchLog[k].query)

\* ------------------------------------------------------------------ C21
\* the statement of removePortfolioHolding a call is at
AtSellInsert(c) == calls[c].pc = "s_tx"
AtSellHolding(c) == calls[c].pc \in {"s_delete", "s_update"}

SellRecord(c) ==
  [stock_id |-> calls[c].stockId, transaction_type |-> "sell",
   price |-> calls[c].price, quantity |-> calls[c].quantity]

\* C21: a sell records its SELL transaction before it touches the holding (the
\* insert leaves the holdings alone and hands over to the update or delete);
\* when the update or delete then fails the call returns false, the holdings
\* are as they were, and the ledger, the recorded SELL transaction included,
\* is kept: no step ever removes or rewrites a ledger entry
C21_SellOrderNoRollback ==
  [][/\ \A c \in Slots :
          /\ (AtSellInsert(c) /\ calls'[c] # calls[c]) =>
                /\ AtSellHolding(c)'
                /\ dbHoldings' = dbHoldings
                /\ faults' = faults => dbTransactions' = Append(dbTransactions, SellRecord(c))
          /\ (AtSellHolding(c) /\ calls'[c] # calls[c] /\ faults' # faults) =>
                /\ calls'[c].pc = "failed" /\ calls'[c].result = FALSE
                /\ dbHoldings' = dbHoldings
                /\ dbTransactions' = dbTransactions
          /\ (AtSellHolding(c) /\ calls'[c] # calls[c] /\ faults' = faults) =>
                /\ calls'[c].result = TRUE
                /\ dbTransactions' = dbTransactions
     /\ Len(dbTransactions') >= Len(dbTransactions)
     /\ SubSeq(dbTransactions', 1, Len(dbTransactions)) = dbTransactions]_vars

\* a sell that failed at its holding step, with its SELL transaction in the
\* ledger and the holding still there
C21_SellFailedAfterInsert ==
  \E c \in Slots :
    /\ calls[c].pc = "failed" /\ calls[c].op = "sell"
    /\ calls[c].failedAt = "s_update"
    /\ dbTransactions # <<>>
    /\ dbTransactions[Len(dbTransactions)].transaction_type = "sell"
    /\ \E h \in dbHoldings : SymbolOf(h.stock_id) = calls[c].symbol

\* ------------------------------------------------------------------ C22
\* the transaction an iteration of the replay handles
ReplayedTx == replay.sortedTxs[replay.done + 1]

IsReplayStep == replay.active /\ replay'.done = replay.done + 1

CoveredSell ==
  /\ ReplayedTx.transactionType = "sell"
  /\ 0 < ReplayedTx.quantity /\ ReplayedTx.quantity <= replay.sharesHeld

\* sellQty * (sellPrice - totalCostBasis / sharesHeld)
CreditedAmount ==
  FracMul(FracInt(ReplayedTx.quantity),
          FracSub(FracInt(ReplayedTx.price),
                  FracDiv(replay.totalCost, FracInt(replay.sharesHeld))))

\* C22: a replayed SELL of no more than the shares held credits
\* sellQty * (sellPrice - totalCost / sharesHeld) to profit when positive and
\* its magnitude to loss otherwise, in the totals and in the sector; after
\* it the cost per remaining share is what it was, and totalCost is 0 when
\* no share remains. Buying 10 at 100 and 10 at 120 and selling 15 at 150
\* gives profit 600 and 5 shares of cost 550
C22_RealizedAgainstAverageCost ==
  /\ [][(IsReplayStep /\ CoveredSell) =>
          /\ IF FracPos(CreditedAmount)
               THEN /\ replay'.totalProfit = FracAdd(replay.totalProfit, CreditedAmount)
                    /\ replay'.sector.profit = FracAdd(replay.sector.profit, CreditedAmount)
                    /\ replay'.totalLoss = replay.totalLoss
                    /\ replay'.sector.loss = replay.sector.loss
               ELSE /\ replay'.totalLoss = FracAdd(replay.totalLoss, FracAbs(CreditedAmount))
                    /\ replay'.sector.loss = FracAdd(replay.sector.loss, FracAbs(CreditedAmount))
                    /\ replay'.totalProfit = replay.totalProfit
                    /\ replay'.sector.profit = replay.sector.profit
          /\ replay'.sharesHeld = replay.sharesHeld - ReplayedTx.quantity
          /\ IF replay'.sharesHeld > 0
               THEN FracDiv(replay'.totalCost, FracInt(replay'.sharesHeld))
                      = FracDiv(replay.totalCost, FracInt(replay.sharesHeld))
               ELSE replay'.totalCost = FracInt(0)]_vars
  /\ [](LET r == ReplayStock(ReplayStart,
                   <<[transactionType |-> "buy", price |-> 100, quantity |-> 10],
                     [transactionType |-> "buy", price |-> 120, quantity |-> 10],
                     [transactionType |-> "sell", price |-> 150, quantity |-> 15]>>)
        IN r.profit = FracInt(600) /\ r.loss = FracInt(0)
             /\ r.sharesHeld = 5 /\ r.totalCost = FracInt(550))

\* two buys at different prices and a sell of part of the shares replayed
C22_PartialSellReplayed ==
  /\ replay.active /\ replay.done = 3
  /\ replay.sortedTxs[1].transactionType = "buy"
  /\ replay.sortedTxs[2].transactionType = "buy"
  /\ replay.sortedTxs[1].price # replay.sortedTxs[2].price
  /\ replay.sortedTxs[3].transactionType = "sell"
  /\ replay.sharesHeld > 0
  /\ replay.totalProfit # FracInt(0) /\ replay.totalProfit # FracInt(3)

\* ------------------------------------------------------------------ C23
\* C23: a SELL replayed while sharesHeld is 0 leaves totalProfit, totalLoss,
\* the sector's profit, loss and investment, sharesHeld and totalCost as
\* they were
C23_SellWithNothingHeld ==
  [][(IsReplayStep /\ ReplayedTx.transactionType = "sell" /\ replay.sharesHeld = 0) =>
       /\ replay'.totalProfit = replay.totalProfit
       /\ replay'.totalLoss = replay.totalLoss
       /\ replay'.sector.profit = replay.sector.profit
       /\ replay'.sector.loss = replay.sector.loss
       /\ replay'.sector.investment = replay.sector.investment
       /\ replay'.sharesHeld = replay.sharesHeld
       /\ replay'.totalCost = replay.totalCost]_vars

\* every share bought was sold and one more SELL was replayed
C23_SellAfterSellOut ==
  /\ replay.active /\ replay.done = 3
  /\ replay.sortedTxs[1].transactionType = "buy"
  /\ replay.sortedTxs[2].transactionType = "sell"
  /\ replay.sortedTxs[2].quantity = replay.sortedTxs[1].quantity
  /\ replay.sortedTxs[3].transactionType = "sell"
  /\ replay.sharesHeld = 0

\* ------------------------------------------------------------------ C24
NoSell(transactions) ==
  \A i \in DOMAIN transactions : transactions[i].transactionType # "sell"

SectorNames(transactions) ==
  {IF transactions[i].sector = "" THEN "Unknown" ELSE transactions[i].sector :
     i \in DOMAIN transactions}

\* C24 (as stated): for a list without a SELL, the empty list included,
\* calculateProfitLoss returns totalProfit = 0, totalLoss = 0 and
\* netProfitLoss = 0, and every returned sector has profit 0 and loss 0 and
\* is the sector of a transaction of the list
C24_NoSellNoRealizedAsStated ==
  NoSell(plTransactions) =>
    /\ plResult.totalProfit = FracInt(0)
    /\ plResult.totalLoss = FracInt(0)
    /\ plResult.netProfitLoss = FracInt(0)
    /\ \A sec \in DOMAIN plResult.sectorData :
         /\ plResult.sectorData[sec].profit = FracInt(0)
         /\ plResult.sectorData[sec].loss = FracInt(0)
         /\ sec \in SectorNames(plTransactions)

\* ------------------------------------------------------------------ C25
\* the sector on an earliest transaction of the stock
FirstSector(transactions, sid) ==
  LET own == {i \in DOMAIN transactions : transactions[i].stockId = sid}
      first == CHOOSE i \in own :
                 \A j \in own : transactions[i].transactionDate <= transactions[j].transactionDate
  IN IF transactions[first].sector = "" THEN "Unknown" ELSE transactions[first].sector

RECURSIVE BoughtFor(_, _)
\* price * quantity of the BUY transactions of a set of stocks
BoughtFor(transactions, sids) ==
  IF transactions = <<>> THEN 0
  ELSE (IF Head(transactions).stockId \in sids /\ Head(transactions).transactionType = "buy"
          THEN Head(transactions).price * Head(transactions).quantity ELSE 0)
       + BoughtFor(Tail(transactions), sids)

CountFor(transactions, sids) ==
  Cardinality({i \in DOMAIN transactions : transactions[i].stockId \in sids})

StocksOfSector(transactions, sec) ==
  {sid \in StockIdsOf(transactions) : FirstSector(transactions, sid) = sec}

\* C25: the returned sectors are the sectors on the earliest transaction of
\* each stock ('Unknown' when it has none), and each holds the investment,
\* the transaction count and the realized profit and loss of exactly the
\* stocks whose earliest transaction names it, whatever the order of
\* transactions of one date in the fetched list
C25_SectorOfFirstTransaction ==
  plTransactions # <<>> =>
    /\ DOMAIN plResult.sectorData =
         {FirstSector(plTransactions, sid) : sid \in StockIdsOf(plTransactions)}
    /\ \A sec \in DOMAIN plResult.sectorData :
         LET sids == StocksOfSector(plTransactions, sec)
         IN /\ plResult.sectorData[sec].investment = FracInt(BoughtFor(plTransactions, sids))
            /\ plResult.sectorData[sec].transactionCount = CountFor(plTransactions, sids)
            /\ plResult.sectorData[sec].profit
                 = SumOver(StockResults(plTransactions), sids, "profit")
            /\ plResult.sectorData[sec].loss
                 = SumOver(StockResults(plTransactions), sids, "loss")

\* two stocks of different sectors, one of them sold at a gain after the
\* other was bought
C25_TwoSectorsOneGain ==
  /\ Len(plTransactions) = 3
  /\ DOMAIN plResult.sectorData = {"Unknown", "Technology"}
  /\ \E sec \in DOMAIN plResult.sectorData :
       /\ FracPos(plResult.sectorData[sec].profit)
       /\ plResult.sectorData[sec].transactionCount = 2
  /\ plTransactions[1].stockId # plTransactions[3].stockId

\* ------------------------------------------------------------------ C26
RECURSIVE TradedAfter(_, _, _, _)
\* the quantity of one stock bought (or sold) after the end of a day
TradedAfter(transactions, sid, type, day) ==
  IF transactions = <<>> THEN 0
  ELSE (IF Head(transactions).stockId = sid /\ Head(transactions).transactionType = type
             /\ Head(transactions).transactionDate > day
          THEN Head(transactions).quantity ELSE 0)
       + TradedAfter(Tail(transactions), sid, type, day)

\* the shares held at the end of a day, from the holding and the ledger
HeldAtEndOf(sid, day) ==
  histHoldings[sid].quantity - TradedAfter(histTx, sid, "buy", day)
    + TradedAfter(histTx, sid, "sell", day)

RECURSIVE ValuedAtQuote(_, _, _)
ValuedAtQuote(shares, quotes, sids) ==
  IF sids = {} THEN 0
  ELSE LET sid == CHOOSE x \in sids : TRUE
       IN shares[sid] * quotes[sid] + ValuedAtQuote(shares, quotes, sids \ {sid})

HistoryReturned ==
  analytics.fn = "getPortfolioHistory" /\ analytics.outcome = "ok"

\* C26 (as stated): for each day of the window the shares valued per stock
\* are the current holding less the buys and plus the sells made after the
\* end of that day, and the day's value is the sum of those share counts
\* times the current price of each stock
C26_BackwardReplayAsStated ==
  HistoryReturned =>
    \A k \in HistoryDates :
      /\ \A sid \in HistStocks :
           /\ analytics.history.dailyShares[k][sid] = HeldAtEndOf(sid, histDay - k)
           /\ analytics.history.dailyShares[k][sid] > 0
                => analytics.history.quotes[sid] # Unquoted
      /\ analytics.history.dailyValues[k]
           = FracInt(ValuedAtQuote(analytics.history.dailyShares[k],
                                   analytics.history.quotes,
                                   {sid \in HistStocks :
                                      analytics.history.dailyShares[k][sid] > 0}))

\* ------------------------------------------------------------------ C27
\* C27 (as stated): in every state reached through addStock and removeStock
\* calls of the user, in sequence or overlapping and with any backend call
\* failing, portfolio_holdings has at most one row per stock
C27_OneHoldingPerStockAsStated ==
  \A h1, h2 \in dbHoldings : h1.stock_id = h2.stock_id => h1.id = h2.id

\* ------------------------------------------------------------------ C28
RECURSIVE LedgerQuantity(_, _, _)
\* the total quantity of one stock's BUY (or SELL) transactions
LedgerQuantity(transactions, stockId, type) ==
  IF transactions = <<>> THEN 0
  ELSE (IF Head(transactions).stock_id = stockId
             /\ Head(transactions).transaction_type = type
          THEN Head(transactions).quantity ELSE 0)
       + LedgerQuantity(Tail(transactions), stockId, type)

NetBought(stockId) ==
  LedgerQuantity(dbTransactions, stockId, "buy")
    - LedgerQuantity(dbTransactions, stockId, "sell")

AllCallsCompleted == \A c \in Slots : calls[c].pc = "idle"

\* C28 (as stated): when no persistence step has failed and every call has
\* completed, each stock's holding quantity is the ledger's total BUY
\* quantity less its total SELL quantity, and the stock has no holding
\* exactly when that difference is 0
C28_HoldingLedgerAgreementAsStated ==
  (faults = 0 /\ AllCallsCompleted) =>
    \A stockId \in DOMAIN dbStocks :
      LET rows == {h \in dbHoldings : h.stock_id = stockId}
      IN /\ (rows = {}) <=> (NetBought(stockId) = 0)
         /\ \A h \in rows : h.quantity = NetBought(stockId)

\* ------------------------------------------------------------------ C29
\* C29: every request handed to enqueueRequest is in the end dispatched and
\* settled, whenever it was enqueued; and whenever isProcessingQueue is
\* false the request queue is empty
C29_QueueLiveness ==
  /\ [](~isProcessingQueue => requestQueue = <<>>)
  /\ \A i \in 1..MaxGatewayCalls :
       (i \in DOMAIN requests)
         ~> (i \in DOMAIN requests /\ requests[i].state = "settled"
               /\ requests[i].dispatchNo # 0)

\* the queue has drained and gone idle after serving a request enqueued
\* during a call and one enqueued during the delay
C29_DrainedAfterBacklog ==
  /\ ~isProcessingQueue /\ loops = <<>>
  /\ Len(requests) = 3
  /\ \A i \in DOMAIN requests : requests[i].state = "settled"
  /\ \E i \in DOMAIN requests : requests[i].enqueuedWhile = "request"
  /\ \E i \in DOMAIN requests : requests[i].enqueuedWhile = "timer"

\* ------------------------------------------------------------------ C30
\* C30 (as stated): the portfolioSummary published after refreshData,
\* addStock or removeStock is, field by field, what getPortfolioSummary
\* returns for the holdings list just loaded, and every field is 0, not NaN,
\* when that list is empty
C30_PublishedSummaryAsStated ==
  published.op # "none" =>
    /\ published.summary = GetPortfolioSummaryOf(published.holdings)
    /\ published.holdings = <<>> =>
         \A f \in SummaryFields(published.summary) : f = FracInt(0)

====
